---- MODULE Spec2Model ----
(***************************************************************************)
(* A model of the content analytics engine of substack_mcp                 *)
(* (src/src/substack_mcp/analysis.py) and of its result cache              *)
(* (src/src/substack_mcp/cache.py).                                        *)
(*                                                                         *)
(* Text is a sequence of characters, each character a one-character        *)
(* string.  Optional values follow Python: None is the empty tuple and a   *)
(* present value v is the one-element tuple <<v>>.  Floats are exact       *)
(* rationals [num, den] with den > 0 (floating-point rounding is not       *)
(* modelled).  Timestamps are instants in seconds on one time line.        *)
(*                                                                         *)
(* Each function of the module is an operator computed the way the Python  *)
(* computes it; each specification draws a call (the function and its      *)
(* arguments) in its initial state and has one action per function, which  *)
(* runs the call and records what it returns.                              *)
(*                                                                         *)
(* pc, call, ret : the call in progress, its arguments and what it returned*)
(* _ANALYSER     : the module-level sentiment analyser of analysis.py      *)
(* log           : the analyse_post calls completed so far, in order, each *)
(*                 with the arguments it was given and its result          *)
(* threads       : the frames of the threads running analyse_post          *)
(* _cache        : the TTLCache of cache.py, its entries from the least to *)
(*                 the most recently used                                  *)
(* timer         : the monotonic clock the cache reads, in seconds         *)
(* invocations   : the keys the wrapped function was invoked for, in order *)
(* _lock         : the thread holding the lock of cache.py, or NoOwner     *)
(* wall          : the clock time.time() reads                             *)
(* _last_request_ts : the field of the shared SubstackPublicClient         *)
(* requests      : the HTTP GETs the client issued, in order, each with    *)
(*                 the thread, the url and the instant stamped for it      *)
(***************************************************************************)
EXTENDS Integers, Sequences, FiniteSets, TLC

VARIABLES pc, call, ret, _ANALYSER, log, threads, _cache, timer, invocations,
          _lock, wall, _last_request_ts, requests

vars == <<pc, call, ret, _ANALYSER, log, threads, _cache, timer, invocations,
          _lock, wall, _last_request_ts, requests>>

\* The state of the client and of the lock of the cache.
client_vars == <<_lock, wall, _last_request_ts, requests>>

\* The state of the cache.
cache_vars == <<_cache, timer, invocations>>

\* The state outside the sequential calls of the analytics functions.
others == <<threads, _cache, timer, invocations,
            _lock, wall, _last_request_ts, requests>>

----------------------------------------------------------------------------
(* Python values *)

None == <<>>
Some(v) == <<v>>
IsNone(o) == o = <<>>
Val(o) == o[1]

NoReturn == [kind |-> "pending"]
Returned(v) == [kind |-> "return", value |-> v]

(* Exact rationals standing for Python floats. *)
RECURSIVE Gcd(_, _)
Gcd(a, b) ==
    IF b = 0 THEN a
    ELSE CHOOSE g \in {Gcd(y, x % y) : x \in {a}, y \in {b}} : TRUE
Abs(n) == IF n < 0 THEN -n ELSE n
\* n / d for d > 0, in lowest terms
Rat(n, d) ==
    LET g == Gcd(Abs(n), d)
    IN  [num |-> n \div g, den |-> d \div g]
RatEq(a, b) == a.num * b.den = b.num * a.den
RatLe(a, b) == a.num * b.den <= b.num * a.den
RatLt(a, b) == a.num * b.den < b.num * a.den
RatAdd(a, b) == Rat(a.num * b.den + b.num * a.den, a.den * b.den)
RatSub(a, b) == Rat(a.num * b.den - b.num * a.den, a.den * b.den)
RatMul(a, b) == Rat(a.num * b.num, a.den * b.den)
\* r / k for an integer k > 0
RatDivInt(r, k) == Rat(r.num, r.den * k)
RatZero == Rat(0, 1)
RatOne == Rat(1, 1)

RECURSIVE SumInts(_)
SumInts(s) == IF s = <<>> THEN 0 ELSE Head(s) + SumInts(Tail(s))

RECURSIVE SumRats(_)
SumRats(s) == IF s = <<>> THEN RatZero ELSE RatAdd(Head(s), SumRats(Tail(s)))

(* The sequences over S of length at most n. *)
SeqsUpTo(S, n) == UNION {[1..k -> S] : k \in 0..n}

----------------------------------------------------------------------------
(* Characters and the str methods the module uses *)

AsciiUpper == <<"A","B","C","D","E","F","G","H","I","J","K","L","M",
                "N","O","P","Q","R","S","T","U","V","W","X","Y","Z">>
AsciiLower == <<"a","b","c","d","e","f","g","h","i","j","k","l","m",
                "n","o","p","q","r","s","t","u","v","w","x","y","z">>

Range(s) == {s[i] : i \in DOMAIN s}

(* The characters str.strip() removes, among those the model uses. *)
Whitespace == {" ", "\n", "\t"}

(* Every character the model's inputs are built from. *)
Universe ==
    Range(AsciiUpper) \cup Range(AsciiLower) \cup Whitespace
        \cup {"'", ".", "!", "?", ",", "1", "2", "é"}

char_lower(c) ==
    IF \E i \in DOMAIN AsciiUpper : AsciiUpper[i] = c
    THEN AsciiLower[CHOOSE i \in DOMAIN AsciiUpper : AsciiUpper[i] = c]
    ELSE c

\* str.lower()
str_lower(s) == [i \in 1..Len(s) |-> char_lower(s[i])]

\* str.strip(): drop the leading and the trailing whitespace.
RECURSIVE lstrip(_)
lstrip(s) ==
    IF s # <<>> /\ Head(s) \in Whitespace THEN lstrip(Tail(s)) ELSE s

RECURSIVE rstrip(_)
rstrip(s) ==
    IF s # <<>> /\ s[Len(s)] \in Whitespace
    THEN rstrip(SubSeq(s, 1, Len(s) - 1))
    ELSE s

str_strip(s) == rstrip(lstrip(s))

\* str.endswith(c) for a one-character suffix
str_endswith(s, c) == s # <<>> /\ s[Len(s)] = c

(* re.findall / re.finditer of a pattern [class]+ : scanning left to right, *)
(* each match is the longest run of class characters starting at the first *)
(* class character not yet consumed.                                       *)
\* The mutant of re_scan that forgets the run the text ends with.
RECURSIVE re_scan_drop_last(_, _, _, _)
re_scan_drop_last(class, text, cur, out) ==
    IF text = <<>>
    THEN out
    ELSE IF Head(text) \in class
         THEN re_scan_drop_last(class, Tail(text), Append(cur, Head(text)), out)
         ELSE re_scan_drop_last(class, Tail(text), <<>>,
                                IF cur = <<>> THEN out ELSE Append(out, cur))

RECURSIVE re_scan(_, _, _, _)
re_scan(class, text, cur, out) ==
    IF text = <<>>
    THEN IF cur = <<>> THEN out ELSE Append(out, cur)
    ELSE IF Head(text) \in class
         THEN re_scan(class, Tail(text), Append(cur, Head(text)), out)
         ELSE re_scan(class, Tail(text), <<>>,
                      IF cur = <<>> THEN out ELSE Append(out, cur))

\* The mutant of re_findall for a pattern that lost its "+": every class
\* character is a match of its own.
re_findall_single(class, text) ==
    LET hits == SelectSeq(text, LAMBDA c : c \in class)
    IN  [i \in 1..Len(hits) |-> <<hits[i]>>]

re_findall(class, text) == re_scan(class, text, <<>>, <<>>)

----------------------------------------------------------------------------
(* Module constants of analysis.py *)

\* _TOKEN_RE = re.compile(r"[A-Za-z']+")
_TOKEN_RE == Range(AsciiUpper) \cup Range(AsciiLower) \cup {"'"}

\* _SENTENCE_RE = re.compile(r"[^.!?]+")
_SENTENCE_RE == Universe \ {".", "!", "?"}

_VOWELS == {"a", "e", "i", "o", "u", "y"}

_STOPWORDS == {
    <<"a">>, <<"a","b","o","u","t">>, <<"a","n">>, <<"a","n","d">>, <<"a","r","e">>,
    <<"a","s">>, <<"a","t">>, <<"b","e">>, <<"b","u","t">>, <<"b","y">>,
    <<"f","o","r">>, <<"f","r","o","m">>, <<"h","a","s">>, <<"h","a","v","e">>,
    <<"h","e">>, <<"i","n">>, <<"i","s">>, <<"i","t">>, <<"i","t","s">>, <<"o","f">>,
    <<"o","n">>, <<"o","r">>, <<"s","h","e">>, <<"t","h","a","t">>, <<"t","h","e">>,
    <<"t","h","e","i","r">>, <<"t","h","e","r","e">>, <<"t","o">>, <<"w","a","s">>,
    <<"w","e","r","e">>, <<"w","i","l","l">>, <<"w","i","t","h">>, <<"y","o","u">>,
    <<"y","o","u","r">> }

----------------------------------------------------------------------------
(* _tokenise, _sentence_lengths *)

\* The mutant of _tokenise whose pattern also takes the full stop.
tokenise_with_full_stop(text) ==
    LET matches == re_findall(_TOKEN_RE \cup {"."}, text)
    IN  [i \in 1..Len(matches) |-> str_lower(matches[i])]

\* The mutant of _tokenise that keeps the case of the matches.
tokenise_no_lower(text) == re_findall(_TOKEN_RE, text)

_tokenise(text) ==
    LET matches == re_findall(_TOKEN_RE, text)
    IN  [i \in 1..Len(matches) |-> str_lower(matches[i])]

\* The mutant of _sentence_lengths that leaves out the first segment.
sentence_lengths_skip_first(text) ==
    LET sentences == SelectSeq(re_findall(_SENTENCE_RE, text),
                               LAMBDA sentence : str_strip(sentence) # <<>>)
        lengths == [i \in 1..Len(sentences) |-> Len(re_findall(_TOKEN_RE, sentences[i]))]
    IN  IF lengths = <<>> THEN lengths ELSE Tail(lengths)

\* The mutant of _sentence_lengths that keeps the blank segments.
sentence_lengths_keep_blank(text) ==
    LET sentences == re_findall(_SENTENCE_RE, text)
    IN  [i \in 1..Len(sentences) |-> Len(re_findall(_TOKEN_RE, sentences[i]))]

_sentence_lengths(text) ==
    LET sentences == re_findall(_SENTENCE_RE, text)
        kept == SelectSeq(sentences, LAMBDA sentence : str_strip(sentence) # <<>>)
    IN  [i \in 1..Len(kept) |-> Len(re_findall(_TOKEN_RE, kept[i]))]

----------------------------------------------------------------------------
(* _count_syllables *)

\* The for loop: st = [syllables, previous_char_was_vowel] after the prefix read.
RECURSIVE syllable_loop(_, _)
syllable_loop(word, st) ==
    IF word = <<>> THEN st
    ELSE LET char == Head(word)
         IN  syllable_loop(Tail(word),
                 IF char \in _VOWELS
                 THEN IF ~st.previous_char_was_vowel
                      THEN [syllables |-> st.syllables + 1,
                            previous_char_was_vowel |-> TRUE]
                      ELSE st
                 ELSE [st EXCEPT !.previous_char_was_vowel = FALSE])

\* The mutant of _count_syllables that drops the floor "or 1".
count_syllables_no_floor(word0) ==
    LET word == str_lower(word0)
        counted == syllable_loop(word,
                       [syllables |-> 0, previous_char_was_vowel |-> FALSE]).syllables
    IN  IF str_endswith(word, "e") /\ counted > 1 THEN counted - 1 ELSE counted

\* The mutant of _count_syllables that forgets the silent-e rule.
count_syllables_no_silent_e(word0) ==
    LET word == str_lower(word0)
        syllables == syllable_loop(word,
                       [syllables |-> 0, previous_char_was_vowel |-> FALSE]).syllables
    IN  IF syllables = 0 THEN 1 ELSE syllables

_count_syllables(word0) ==
    LET word == str_lower(word0)
        counted == syllable_loop(word,
                       [syllables |-> 0, previous_char_was_vowel |-> FALSE]).syllables
        syllables == IF str_endswith(word, "e") /\ counted > 1
                     THEN counted - 1 ELSE counted
    IN  IF syllables = 0 THEN 1 ELSE syllables

----------------------------------------------------------------------------
(* _keywords *)

\* The default of the parameter top_n.
top_n_default == 12

(* collections.Counter: a dict, so a sequence of [term, count] in the order *)
(* the terms were first inserted.                                           *)
counter_index(counter, term) ==
    IF \E i \in DOMAIN counter : counter[i].term = term
    THEN CHOOSE i \in DOMAIN counter : counter[i].term = term
    ELSE 0

counter_add(counter, term) ==
    LET i == counter_index(counter, term)
    IN  IF i = 0
        THEN Append(counter, [term |-> term, count |-> 1])
        ELSE [counter EXCEPT ![i].count = @ + 1]

RECURSIVE Counter(_, _)
Counter(iterable, counter) ==
    IF iterable = <<>> THEN counter
    ELSE Counter(Tail(iterable), counter_add(counter, Head(iterable)))

(* sorted(items, key=count, reverse=True): a stable sort, items of equal    *)
(* count keep the order they had.                                           *)
sorted_insert(sorted, item) ==
    LET before == Cardinality({i \in DOMAIN sorted : sorted[i].count >= item.count})
    IN  SubSeq(sorted, 1, before) \o <<item>> \o SubSeq(sorted, before + 1, Len(sorted))

RECURSIVE sorted_by_count(_, _)
sorted_by_count(items, sorted) ==
    IF items = <<>> THEN sorted
    ELSE sorted_by_count(Tail(items), sorted_insert(sorted, Head(items)))

\* The mutant of most_common whose sort puts the later of two equal counts first.
most_common_unstable(counter, n) ==
    LET rev == [i \in 1..Len(counter) |-> counter[Len(counter) + 1 - i]]
        ordered == sorted_by_count(rev, <<>>)
    IN  SubSeq(ordered, 1, IF n < Len(ordered) THEN n ELSE Len(ordered))

\* The mutant of most_common that keeps one entry fewer.
most_common_one_fewer(counter, n) ==
    LET ordered == sorted_by_count(counter, <<>>)
        m == IF n - 1 < Len(ordered) THEN n - 1 ELSE Len(ordered)
    IN  SubSeq(ordered, 1, m)

\* Counter.most_common(n) = heapq.nlargest(n, items, key=count), which is
\* sorted(items, key=count, reverse=True)[:n].
most_common(counter, n) ==
    LET ordered == sorted_by_count(counter, <<>>)
    IN  SubSeq(ordered, 1, IF n < Len(ordered) THEN n ELSE Len(ordered))

\* The mutant of _keywords that divides by the occurrences of the returned
\* terms only.
keywords_total_returned(tokens, top_n) ==
    LET kept == SelectSeq(tokens,
                    LAMBDA token : token \notin _STOPWORDS /\ Len(token) > 2)
        counter == Counter(kept, <<>>)
        common == most_common(counter, top_n)
        total == SumInts([i \in 1..Len(common) |-> common[i].count])
    IN  IF counter = <<>> THEN <<>>
        ELSE [i \in 1..Len(common) |->
                 [term |-> common[i].term, score |-> Rat(common[i].count, total)]]

\* The mutant of _keywords that divides by the number of distinct terms.
keywords_total_distinct(tokens, top_n) ==
    LET kept == SelectSeq(tokens,
                    LAMBDA token : token \notin _STOPWORDS /\ Len(token) > 2)
        counter == Counter(kept, <<>>)
        total == Len(counter)
        common == most_common(counter, top_n)
    IN  IF counter = <<>> THEN <<>>
        ELSE [i \in 1..Len(common) |->
                 [term |-> common[i].term, score |-> Rat(common[i].count, total)]]

_keywords(tokens, top_n) ==
    LET kept == SelectSeq(tokens,
                    LAMBDA token : token \notin _STOPWORDS /\ Len(token) > 2)
        counter == Counter(kept, <<>>)
        total == SumInts([i \in 1..Len(counter) |-> counter[i].count])
        common == most_common(counter, top_n)
    IN  IF counter = <<>> THEN <<>>
        ELSE [i \in 1..Len(common) |->
                 [term |-> common[i].term, score |-> Rat(common[i].count, total)]]

----------------------------------------------------------------------------
(* _flesch_reading_ease, _flesch_kincaid_grade *)

\* The decimal literal n / 1000
Milli(n) == Rat(n, 1000)

\* The mutant of _flesch_reading_ease that guards only the word count.
flesch_reading_ease_words_only(word_count, sentence_count, syllable_count) ==
    IF word_count = 0
    THEN RatZero
    ELSE IF sentence_count = 0
    THEN Milli(206835)
    ELSE LET words_per_sentence == Rat(word_count, sentence_count)
             syllables_per_word == Rat(syllable_count, word_count)
         IN  RatSub(RatSub(Milli(206835), RatMul(Milli(1015), words_per_sentence)),
                    RatMul(Milli(84600), syllables_per_word))

_flesch_reading_ease(word_count, sentence_count, syllable_count) ==
    IF word_count = 0 \/ sentence_count = 0
    THEN RatZero
    ELSE LET words_per_sentence == Rat(word_count, sentence_count)
             syllables_per_word == Rat(syllable_count, word_count)
         IN  RatSub(RatSub(Milli(206835), RatMul(Milli(1015), words_per_sentence)),
                    RatMul(Milli(84600), syllables_per_word))

_flesch_kincaid_grade(word_count, sentence_count, syllable_count) ==
    IF word_count = 0 \/ sentence_count = 0
    THEN RatZero
    ELSE LET words_per_sentence == Rat(word_count, sentence_count)
             syllables_per_word == Rat(syllable_count, word_count)
         IN  RatSub(RatAdd(RatMul(Milli(390), words_per_sentence),
                           RatMul(Milli(11800), syllables_per_word)),
                    Milli(15590))

----------------------------------------------------------------------------
(* _publishing_cadence_days *)

\* The seconds of a day, the divisor of total_seconds().
SecondsPerDay == 86400

\* The mutant of descending_insert that sorts the earliest first.
ascending_insert(sorted, t) ==
    LET before == Cardinality({i \in DOMAIN sorted : sorted[i] <= t})
    IN  SubSeq(sorted, 1, before) \o <<t>> \o SubSeq(sorted, before + 1, Len(sorted))

\* sorted(timestamps, reverse=True)
descending_insert(sorted, t) ==
    LET before == Cardinality({i \in DOMAIN sorted : sorted[i] >= t})
    IN  SubSeq(sorted, 1, before) \o <<t>> \o SubSeq(sorted, before + 1, Len(sorted))

\* The mutant of sorted_descending that leaves the timestamps as given.
sorted_keeps_order(items, sorted) == items

RECURSIVE sorted_descending(_, _)
sorted_descending(items, sorted) ==
    IF items = <<>> THEN sorted
    ELSE sorted_descending(Tail(items), descending_insert(sorted, Head(items)))

\* The mutant of _publishing_cadence_days that divides by the number of
\* timestamps instead of the number of gaps.
cadence_divided_by_count(history) ==
    LET stamped == SelectSeq(history, LAMBDA summary : ~IsNone(summary.published_at))
        timestamps == sorted_descending(
                          [i \in 1..Len(stamped) |-> Val(stamped[i].published_at)], <<>>)
        deltas == [idx \in 1..(Len(timestamps) - 1) |->
                      Rat(timestamps[idx] - timestamps[idx + 1], SecondsPerDay)]
    IN  IF Len(timestamps) < 2 THEN None
        ELSE Some(RatDivInt(SumRats(deltas), Len(timestamps)))

_publishing_cadence_days(history) ==
    LET stamped == SelectSeq(history, LAMBDA summary : ~IsNone(summary.published_at))
        timestamps == sorted_descending(
                          [i \in 1..Len(stamped) |-> Val(stamped[i].published_at)], <<>>)
        deltas == [idx \in 1..(Len(timestamps) - 1) |->
                      Rat(timestamps[idx] - timestamps[idx + 1], SecondsPerDay)]
    IN  IF Len(timestamps) < 2 THEN None
        ELSE IF deltas = <<>> THEN None
        ELSE Some(RatDivInt(SumRats(deltas), Len(deltas)))

----------------------------------------------------------------------------
(* analyse_post *)

(* _ANALYSER.polarity_scores(text): the VADER analyser is a third-party     *)
(* library; each score it gives is kept as a term naming the score and the  *)
(* text it was computed from, by the analyser as it is at the call.         *)
polarity_scores(text) ==
    [neg |-> <<"neg", _ANALYSER, text>>, neu |-> <<"neu", _ANALYSER, text>>,
     pos |-> <<"pos", _ANALYSER, text>>, compound |-> <<"compound", _ANALYSER, text>>]

\* _ANALYSER = SentimentIntensityAnalyzer(), as module load leaves it
LoadedAnalyser == [lexicon |-> "vader_lexicon"]

\* The analyser after polarity_scores(text): the method reads the lexicon and
\* builds its result from local objects, it assigns nothing to the analyser.
\* The mutant of analyser_after_polarity_scores where a call leaves a trace
\* in the analyser.
analyser_marked_used(analyser, text) == [lexicon |-> "vader_lexicon_used"]

analyser_after_polarity_scores(analyser, text) == analyser

\* The arguments after analyse_post returns: text, tokens and timestamps are
\* new objects (comprehensions, sorted()), the arguments are only read.
\* The mutant of arguments_after_analyse_post where the history list is
\* reversed in place.
arguments_history_reversed(content, history) ==
    [content |-> content,
     history |-> IF IsNone(history) THEN history
                 ELSE Some([i \in 1..Len(Val(history)) |->
                               Val(history)[Len(Val(history)) + 1 - i]])]

arguments_after_analyse_post(content, history) ==
    [content |-> content, history |-> history]

\* datetime.isoformat() of the instant now
isoformat(now) == <<"isoformat", now>>

\* The number of distinct elements: len(set(tokens))
LenSet(s) == Cardinality(Range(s))

\* text = content.text or ""
text_or_empty(content) ==
    IF IsNone(content.text) \/ Val(content.text) = <<>>
    THEN <<>> ELSE Val(content.text)

\* The mutant of sentence_count_or_one that keeps the literal count.
sentence_count_literal(sentence_lengths) == Len(sentence_lengths)

\* sentence_count = len(sentence_lengths) or 1
sentence_count_or_one(sentence_lengths) ==
    IF Len(sentence_lengths) # 0 THEN Len(sentence_lengths) ELSE 1

\* The mutant of post_sentiment that tests the text without stripping it.
post_sentiment_unstripped(text) ==
    LET scores == polarity_scores(text)
    IN  IF text # <<>>
        THEN Some([negative |-> scores.neg, neutral |-> scores.neu,
                   positive |-> scores.pos, compound |-> scores.compound])
        ELSE None

\* sentiment = None; if text.strip(): sentiment = SentimentBreakdown(...)
post_sentiment(text) ==
    LET scores == polarity_scores(text)
    IN  IF str_strip(text) # <<>>
        THEN Some([negative |-> scores.neg, neutral |-> scores.neu,
                   positive |-> scores.pos, compound |-> scores.compound])
        ELSE None

\* The body of analyse_post but for lines 130-138: what it computes and
\* returns, given the sentiment those lines have set.
analyse_post_given(content, history, now, sentiment) ==
    LET text == text_or_empty(content)
        tokens == _tokenise(text)
        word_count == Len(tokens)
        sentence_lengths == _sentence_lengths(text)
        sentence_count == sentence_count_or_one(sentence_lengths)
        syllable_count ==
            SumInts([i \in 1..Len(tokens) |-> _count_syllables(tokens[i])])
        keywords == _keywords(tokens, top_n_default)
        lexical_diversity ==
            IF word_count # 0 THEN Some(Rat(LenSet(tokens), word_count)) ELSE None
        avg_sentence_length ==
            IF sentence_lengths # <<>>
            THEN Some(Rat(SumInts(sentence_lengths), Len(sentence_lengths)))
            ELSE None
        flesch == _flesch_reading_ease(word_count, sentence_count, syllable_count)
        fk_grade == _flesch_kincaid_grade(word_count, sentence_count, syllable_count)
        cadence_days ==
            _publishing_cadence_days(IF IsNone(history) \/ Val(history) = <<>>
                                     THEN <<>> ELSE Val(history))
    IN  [summary |-> content.summary,
         sentiment |-> sentiment,
         keywords |-> keywords,
         flesch_reading_ease |-> flesch,
         flesch_kincaid_grade |-> fk_grade,
         lexical_diversity |-> lexical_diversity,
         average_sentence_length |-> avg_sentence_length,
         publishing_cadence_days |-> cadence_days,
         extra |-> [word_count |-> word_count,
                    sentence_count |-> sentence_count,
                    syllable_count |-> syllable_count,
                    generated_at |-> isoformat(now)]]

analyse_post(content, history, now) ==
    analyse_post_given(content, history, now, post_sentiment(text_or_empty(content)))

----------------------------------------------------------------------------
(* The state at module load *)

ModuleLoaded == _ANALYSER = LoadedAnalyser /\ log = <<>>
CacheIdle == _cache = <<>> /\ timer = 0 /\ invocations = <<>>
\* _lock = threading.RLock(), not held; self._last_request_ts = 0.0
NoOwner == 0
ClientIdle == _lock = NoOwner /\ wall = 0 /\ _last_request_ts = 0 /\ requests = <<>>
OthersIdle == threads = <<>> /\ CacheIdle /\ ClientIdle

----------------------------------------------------------------------------
(* Direct calls of _count_syllables *)

\* The longest word passed to _count_syllables.
MaxWordLen == 5

\* The characters of those words: vowels of both cases, a consonant and the
\* apostrophe a token may contain.
WordChars == {"a", "e", "E", "y", "t", "'"}

InitSyllables ==
    /\ pc = "call"
    /\ call \in [fn : {"_count_syllables"}, word : SeqsUpTo(WordChars, MaxWordLen)]
    /\ ret = NoReturn
    /\ ModuleLoaded
    /\ OthersIdle

CountSyllables ==
    /\ pc = "call"
    /\ call.fn = "_count_syllables"
    /\ ret' = Returned(_count_syllables(call.word))
    /\ pc' = "done"
    /\ UNCHANGED <<call, _ANALYSER, log>>
    /\ UNCHANGED others

NextSyllables == CountSyllables

SpecSyllables == InitSyllables /\ [][NextSyllables]_vars

\* What the claims say of a word, stated without the loop: the vowel groups
\* are the positions holding a vowel whose predecessor holds none.
IsVowelChar(c) == char_lower(c) \in _VOWELS
VowelGroups(word) ==
    Cardinality({i \in DOMAIN word :
        IsVowelChar(word[i]) /\ (i = 1 \/ ~IsVowelChar(word[i - 1]))})
EndsWithE(word) == word # <<>> /\ char_lower(word[Len(word)]) = "e"
SilentE(word) == IF EndsWithE(word) /\ VowelGroups(word) > 1 THEN 1 ELSE 0
Max(a, b) == IF a >= b THEN a ELSE b

SyllablesDone == pc = "done" /\ call.fn = "_count_syllables"

\* C7: _count_syllables returns max(1, g - d), g the number of maximal vowel
\* runs of the word (case-insensitive) and d = 1 iff the word ends with e and
\* g > 1; so the result is at least 1 for every word.
C7_SyllableFormula ==
    SyllablesDone =>
        /\ ret.value = Max(1, VowelGroups(call.word) - SilentE(call.word))
        /\ ret.value >= 1

\* C7 witness: a word of two vowel groups ending in (upper-case) e has been
\* counted as one syllable.
C7_Witness ==
    /\ SyllablesDone
    /\ call.word = <<"t", "a", "t", "E">>
    /\ ret.value = 1

----------------------------------------------------------------------------
(* Direct calls of _keywords *)

\* The most distinct filler terms of a token sequence (more than top_n_default,
\* so that most_common has terms to drop).
MaxDistinct == 14
\* The most tokens put before, and after, the filler terms.
MaxFree == 2

\* Distinct qualifying terms: kak, kbk, kck, ...
FillerTerm(i) == <<"k", AsciiLower[i], "k">>
Filler(k) == [i \in 1..k |-> FillerTerm(i)]

\* The tokens put around the fillers: the first filler and the first one past
\* top_n_default (to reorder and to repeat them), a stopword and a short token.
FreeTokens ==
    {FillerTerm(1), FillerTerm(top_n_default + 1), <<"t","h","e">>, <<"o","x">>}

InitKeywords ==
    /\ pc = "call"
    /\ \E k \in 0..MaxDistinct :
       \E pre \in SeqsUpTo(FreeTokens, MaxFree) :
       \E post \in SeqsUpTo(FreeTokens, MaxFree) :
          call = [fn |-> "_keywords", tokens |-> pre \o Filler(k) \o post]
    /\ ret = NoReturn
    /\ ModuleLoaded
    /\ OthersIdle

Keywords ==
    /\ pc = "call"
    /\ call.fn = "_keywords"
    /\ ret' = Returned(_keywords(call.tokens, top_n_default))
    /\ pc' = "done"
    /\ UNCHANGED <<call, _ANALYSER, log>>
    /\ UNCHANGED others

NextKeywords == Keywords

SpecKeywords == InitKeywords /\ [][NextKeywords]_vars

\* What the claims say of a token sequence, stated on the tokens themselves.
Qualifies(token) == token \notin _STOPWORDS /\ Len(token) > 2
QualifyingPositions(tokens) == {i \in DOMAIN tokens : Qualifies(tokens[i])}
QualifyingTerms(tokens) == {tokens[i] : i \in QualifyingPositions(tokens)}
Occurrences(term, tokens) == Cardinality({i \in DOMAIN tokens : tokens[i] = term})
FirstOccurrence(term, tokens) ==
    CHOOSE i \in DOMAIN tokens :
        tokens[i] = term /\ \A j \in DOMAIN tokens : tokens[j] = term => i <= j
ReturnedTerms(keywords) == {keywords[i].term : i \in DOMAIN keywords}
ScoreSum(keywords) == SumRats([i \in 1..Len(keywords) |-> keywords[i].score])
Min(a, b) == IF a <= b THEN a ELSE b

KeywordsDone == pc = "done" /\ call.fn = "_keywords"

\* C3: every returned term is a token outside the stopword set and longer than
\* 2; its score is its number of occurrences divided by the number of ALL
\* qualifying token occurrences (not only those of the returned terms); up to
\* 12 distinct qualifying terms are all returned; no qualifying token, empty list.
C3_KeywordScores ==
    KeywordsDone =>
        LET tokens == call.tokens
            keywords == ret.value
            total == Cardinality(QualifyingPositions(tokens))
        IN  /\ \A i \in DOMAIN keywords :
                  /\ keywords[i].term \in QualifyingTerms(tokens)
                  /\ keywords[i].score.den > 0
                  /\ keywords[i].score.num * total
                         = Occurrences(keywords[i].term, tokens) * keywords[i].score.den
            /\ Cardinality(QualifyingTerms(tokens)) <= 12
                  => ReturnedTerms(keywords) = QualifyingTerms(tokens)
            /\ total = 0 <=> keywords = <<>>

\* C3 witness: 13 distinct terms qualify beside a stopword and a short token;
\* 12 are returned, each scored 1/13 (the dropped term stays in the denominator).
C3_Witness ==
    /\ KeywordsDone
    /\ call.tokens = <<<<"t","h","e">>, <<"o","x">>>> \o Filler(13)
    /\ Len(ret.value) = 12
    /\ \A i \in DOMAIN ret.value : ret.value[i].score = Rat(1, 13)

\* C4: at most 12 entries, pairwise distinct terms, frequencies non-increasing,
\* equal frequencies in order of first occurrence; a qualifying term left out
\* has a lower frequency than every returned term, or the same with a later
\* first occurrence; as many as 12 are returned when as many qualify.
C4_KeywordOrder ==
    KeywordsDone =>
        LET tokens == call.tokens
            keywords == ret.value
            Freq(term) == Occurrences(term, tokens)
            First(term) == FirstOccurrence(term, tokens)
        IN  /\ Len(keywords) = Min(12, Cardinality(QualifyingTerms(tokens)))
            /\ \A i, j \in DOMAIN keywords :
                  i < j =>
                    /\ keywords[i].term # keywords[j].term
                    /\ Freq(keywords[i].term) >= Freq(keywords[j].term)
                    /\ RatLe(keywords[j].score, keywords[i].score)
                    /\ Freq(keywords[i].term) = Freq(keywords[j].term)
                          => First(keywords[i].term) < First(keywords[j].term)
            /\ \A omitted \in QualifyingTerms(tokens) \ ReturnedTerms(keywords) :
               \A i \in DOMAIN keywords :
                  \/ Freq(omitted) < Freq(keywords[i].term)
                  \/ /\ Freq(omitted) = Freq(keywords[i].term)
                     /\ First(omitted) > First(keywords[i].term)

\* C4 witness: 14 distinct terms, the 13th also seen before all others and the
\* 1st repeated at the end: the 1st and the 13th lead (two occurrences each, the
\* 13th seen first), and the 12th and the 14th are left out.
C4_Witness ==
    /\ KeywordsDone
    /\ call.tokens = <<FillerTerm(13)>> \o Filler(14) \o <<FillerTerm(1)>>
    /\ Len(ret.value) = 12
    /\ ret.value[1].term = FillerTerm(13)
    /\ ret.value[2].term = FillerTerm(1)
    /\ ret.value[12].term = FillerTerm(11)

\* C5: the returned scores sum to at most 1 and each lies in (0, 1].
C5_ScoresBounded ==
    KeywordsDone =>
        /\ RatLe(ScoreSum(ret.value), RatOne)
        /\ \A i \in DOMAIN ret.value :
              /\ RatLt(RatZero, ret.value[i].score)
              /\ RatLe(ret.value[i].score, RatOne)

\* C5 witness: 13 terms qualify once each, the top-12 cut drops one and the
\* returned scores sum to 12/13.
C5_Witness ==
    /\ KeywordsDone
    /\ Cardinality(QualifyingTerms(call.tokens)) = 13
    /\ ScoreSum(ret.value) = Rat(12, 13)

SumIsOne == RatEq(ScoreSum(ret.value), RatOne)
CoversAll == ReturnedTerms(ret.value) = QualifyingTerms(call.tokens)

\* C6 as claimed: the scores sum to exactly 1 iff the returned set covers all
\* qualifying tokens, i.e. iff fewer than 12 distinct terms qualify.
C6_AsClaimed ==
    KeywordsDone =>
        /\ SumIsOne <=> CoversAll
        /\ SumIsOne <=> Cardinality(QualifyingTerms(call.tokens)) < 12

\* C6 as amended: the scores sum to exactly 1 iff at least one token qualifies
\* and the returned set covers all qualifying terms, i.e. iff the number of
\* distinct qualifying terms is at least 1 and at most 12.
C6_SumOneIffCovered ==
    KeywordsDone =>
        /\ SumIsOne <=> (CoversAll /\ QualifyingTerms(call.tokens) # {})
        /\ SumIsOne <=> Cardinality(QualifyingTerms(call.tokens)) \in 1..12

\* C6 witness: exactly 12 distinct terms qualify, all are returned and the
\* scores sum to 1.
C6_Witness ==
    /\ KeywordsDone
    /\ Cardinality(QualifyingTerms(call.tokens)) = 12
    /\ Len(ret.value) = 12
    /\ SumIsOne

----------------------------------------------------------------------------
(* Calls of analyse_post, shared by the specifications below *)

\* The latest instant datetime.utcnow() may give.
MaxNow == 1
Clock == 0..MaxNow

Summary(published_at) == [title |-> "Sample", published_at |-> published_at]

AnalysePost ==
    /\ pc = "call"
    /\ call.fn = "analyse_post"
    /\ \E now \in Clock :
          LET result == analyse_post(call.content, call.history, now)
          IN  /\ ret' = Returned(result)
              /\ log' = Append(log, [content |-> call.content,
                                     history |-> call.history,
                                     result |-> result])
    /\ LET after == arguments_after_analyse_post(call.content, call.history)
       IN  call' = [call EXCEPT !.content = after.content,
                                !.history = after.history]
    /\ _ANALYSER' =
          IF str_strip(text_or_empty(call.content)) # <<>>
          THEN analyser_after_polarity_scores(_ANALYSER, text_or_empty(call.content))
          ELSE _ANALYSER
    /\ pc' = "done"
    /\ UNCHANGED others

AnalyseDone == pc = "done" /\ call.fn = "analyse_post"

----------------------------------------------------------------------------
(* Publishing cadence: direct calls of _publishing_cadence_days, and calls *)
(* of analyse_post on one text with every history                          *)

\* The most entries of a history.
MaxHistory == 4

\* Instants, counted in seconds from 10 days before the reference instant.
DaysAgo(n) == (10 - n) * SecondsPerDay
Instants ==
    {DaysAgo(10), DaysAgo(7), DaysAgo(3), DaysAgo(3) + (SecondsPerDay \div 2)}

Summaries == {Summary(None)} \cup {Summary(Some(t)) : t \in Instants}
Histories == SeqsUpTo(Summaries, MaxHistory)

CadenceContent ==
    [summary |-> Summary(Some(DaysAgo(3))),
     html |-> None,
     text |-> Some(<<"H", "i", ".">>)]

InitCadence ==
    /\ pc = "call"
    /\ \/ \E h \in Histories :
             call = [fn |-> "_publishing_cadence_days", history |-> h]
       \/ \E h \in Histories :
             call = [fn |-> "analyse_post", content |-> CadenceContent,
                     history |-> Some(h)]
       \/ call = [fn |-> "analyse_post", content |-> CadenceContent,
                  history |-> None]
    /\ ret = NoReturn
    /\ ModuleLoaded
    /\ OthersIdle

PublishingCadenceDays ==
    /\ pc = "call"
    /\ call.fn = "_publishing_cadence_days"
    /\ ret' = Returned(_publishing_cadence_days(call.history))
    /\ pc' = "done"
    /\ UNCHANGED <<call, _ANALYSER, log>>
    /\ UNCHANGED others

NextCadence == PublishingCadenceDays \/ AnalysePost

SpecCadence == InitCadence /\ [][NextCadence]_vars

\* The history a finished call was given, and the cadence it returned.
CalledHistory ==
    IF call.fn = "analyse_post"
    THEN IF IsNone(call.history) THEN <<>> ELSE Val(call.history)
    ELSE call.history
ReturnedCadence ==
    IF call.fn = "analyse_post"
    THEN ret.value.publishing_cadence_days
    ELSE ret.value

\* The timestamps of a history from the most recent to the oldest: the
\* non-increasing arrangement of its non-null published_at values.
StampedPositions(history) ==
    {i \in DOMAIN history : ~IsNone(history[i].published_at)}
StampCount(history, t) ==
    Cardinality({i \in StampedPositions(history) : Val(history[i].published_at) = t})
MostRecentFirst(history) ==
    LET n == Cardinality(StampedPositions(history))
        values == {Val(history[i].published_at) : i \in StampedPositions(history)}
    IN  CHOOSE s \in [1..n -> values] :
            /\ \A i \in 1..(n - 1) : s[i] >= s[i + 1]
            /\ \A t \in values :
                  Cardinality({i \in 1..n : s[i] = t}) = StampCount(history, t)

\* C1: the cadence is None when fewer than 2 entries of the history have a
\* published_at; otherwise it is the arithmetic mean of the gaps, in days,
\* between adjacent timestamps taken most recent first.  It holds of
\* _publishing_cadence_days and of the field analyse_post reports.
C1_CadenceIsMeanGap ==
    pc = "done" =>
        LET history == CalledHistory
            n == Cardinality(StampedPositions(history))
            s == MostRecentFirst(history)
            gaps == [i \in 1..(n - 1) |-> s[i] - s[i + 1]]
        IN  IF n < 2
            THEN ReturnedCadence = None
            ELSE ReturnedCadence = Some(Rat(SumInts(gaps), SecondsPerDay * (n - 1)))

\* C1 witness: posts 7, 3 and 10 days ago (and one without a date), given out
\* of order, have the cadence 3.5 days.
C1_Witness ==
    /\ pc = "done"
    /\ call.fn = "_publishing_cadence_days"
    /\ call.history = <<Summary(Some(DaysAgo(7))), Summary(None),
                        Summary(Some(DaysAgo(3))), Summary(Some(DaysAgo(10)))>>
    /\ ret.value = Some(Rat(7, 2))

----------------------------------------------------------------------------
(* Text analytics: calls of analyse_post on every short text, and direct   *)
(* calls of the two readability formulas                                   *)

\* The longest text analysed.
MaxTextLen == 4
\* The largest count passed directly to a readability formula.
MaxCount == 3

\* The characters of those texts: vowels and a consonant, one of them in upper
\* case, the apostrophe, a blank, a sentence terminator and a digit.
TextChars == {"a", "e", "T", "t", "'", " ", ".", "1"}

Texts == {None} \cup {Some(t) : t \in SeqsUpTo(TextChars, MaxTextLen)}

AnalyseHistories ==
    {None,
     Some(<<Summary(Some(DaysAgo(10))), Summary(None), Summary(Some(DaysAgo(3)))>>)}

Counts == 0..MaxCount

InitAnalyse ==
    /\ pc = "call"
    /\ \/ \E text \in Texts, history \in AnalyseHistories :
             call = [fn |-> "analyse_post",
                     content |-> [summary |-> Summary(Some(DaysAgo(3))),
                                  html |-> None,
                                  text |-> text],
                     history |-> history]
       \/ \E fn \in {"_flesch_reading_ease", "_flesch_kincaid_grade"} :
          \E w \in Counts, s \in Counts, y \in Counts :
             call = [fn |-> fn, word_count |-> w, sentence_count |-> s,
                     syllable_count |-> y]
    /\ ret = NoReturn
    /\ ModuleLoaded
    /\ OthersIdle

FleschReadingEase ==
    /\ pc = "call"
    /\ call.fn = "_flesch_reading_ease"
    /\ ret' = Returned(_flesch_reading_ease(call.word_count, call.sentence_count,
                                            call.syllable_count))
    /\ pc' = "done"
    /\ UNCHANGED <<call, _ANALYSER, log>>
    /\ UNCHANGED others

FleschKincaidGrade ==
    /\ pc = "call"
    /\ call.fn = "_flesch_kincaid_grade"
    /\ ret' = Returned(_flesch_kincaid_grade(call.word_count, call.sentence_count,
                                             call.syllable_count))
    /\ pc' = "done"
    /\ UNCHANGED <<call, _ANALYSER, log>>
    /\ UNCHANGED others

NextAnalyse == AnalysePost \/ FleschReadingEase \/ FleschKincaidGrade

SpecAnalyse == InitAnalyse /\ [][NextAnalyse]_vars

\* What the claims say of a text, stated on its characters.
Terminators == {".", "!", "?"}
GivenText == IF IsNone(call.content.text) THEN <<>> ELSE Val(call.content.text)
IsBlank(text) == \A i \in DOMAIN text : text[i] \in Whitespace
\* The positions where a maximal run of token characters starts.
TokenStarts(text) ==
    {i \in DOMAIN text :
        text[i] \in _TOKEN_RE /\ (i = 1 \/ text[i - 1] \notin _TOKEN_RE)}
\* The positions where a sentence segment holding a non-blank character starts.
SegmentStarts(text) ==
    {i \in DOMAIN text :
        /\ text[i] \notin Terminators
        /\ i = 1 \/ text[i - 1] \in Terminators
        /\ \E j \in i..Len(text) :
              /\ text[j] \notin Whitespace
              /\ \A k \in i..j : text[k] \notin Terminators}

\* C2: the sentiment is None exactly when content.text is null, empty or made
\* of whitespace only; for every other text it is present and carries the four
\* scores the analyser gives for that text.
C2_SentimentPresence ==
    AnalyseDone =>
        /\ ret.value.sentiment = None
              <=> (IsNone(call.content.text) \/ IsBlank(Val(call.content.text)))
        /\ ret.value.sentiment # None =>
              LET scores == polarity_scores(Val(call.content.text))
              IN  Val(ret.value.sentiment) =
                      [negative |-> scores.neg, neutral |-> scores.neu,
                       positive |-> scores.pos, compound |-> scores.compound]

\* C2 witness: a text of two blanks was analysed and has no sentiment, although
\* it is not the empty string.
C2_Witness ==
    /\ AnalyseDone
    /\ call.content.text = Some(<<" ", " ">>)
    /\ ret.value.sentiment = None
    /\ ret.value.extra.word_count = 0

\* C8: extra.word_count is the number of tokens of the text (the maximal runs
\* of letters and apostrophes) and extra.syllable_count is at least as large.
C8_WordAndSyllableCounts ==
    AnalyseDone =>
        /\ ret.value.extra.word_count = Cardinality(TokenStarts(GivenText))
        /\ ret.value.extra.syllable_count >= ret.value.extra.word_count

\* C8 witness: a text of two tokens without a vowel (a consonant, an
\* apostrophe) has 2 words and 2 syllables.
C8_Witness ==
    /\ AnalyseDone
    /\ call.content.text = Some(<<"t", " ", "'">>)
    /\ ret.value.extra.word_count = 2
    /\ ret.value.extra.syllable_count = 2

FleschDone ==
    pc = "done" /\ call.fn \in {"_flesch_reading_ease", "_flesch_kincaid_grade"}

\* C9: both readability formulas return 0.0 whenever the word count or the
\* sentence count is 0, whatever the syllable count; and analyse_post reports
\* 0.0 for both scores of every text without a word token.
C9_ZeroGuard ==
    /\ FleschDone /\ (call.word_count = 0 \/ call.sentence_count = 0)
          => ret.value = RatZero
    /\ AnalyseDone /\ TokenStarts(GivenText) = {}
          => /\ ret.value.flesch_reading_ease = RatZero
             /\ ret.value.flesch_kincaid_grade = RatZero

\* C9 witness: the reading ease of 2 words and 3 syllables in 0 sentences was
\* asked for and is 0.0.
C9_Witness ==
    /\ FleschDone
    /\ call.fn = "_flesch_reading_ease"
    /\ call.word_count = 2 /\ call.sentence_count = 0 /\ call.syllable_count = 3
    /\ ret.value = RatZero

\* C10 as claimed: extra.sentence_count is the literal number of non-empty
\* sentence segments, so 0 for a text without one.
C10_AsClaimed ==
    AnalyseDone =>
        ret.value.extra.sentence_count = Cardinality(SegmentStarts(GivenText))

\* C10 as amended: extra.sentence_count is the number of non-empty sentence
\* segments with the floor of 1 applied, the value used for the ratios; it is
\* 1, not 0, for a text without a non-empty segment.
C10_SentenceCountFloored ==
    AnalyseDone =>
        ret.value.extra.sentence_count
            = Max(1, Cardinality(SegmentStarts(GivenText)))

\* C10 witness: a text made of a sentence terminator and a blank has no
\* non-empty segment and is reported with sentence_count 1.
C10_Witness ==
    /\ AnalyseDone
    /\ call.content.text = Some(<<".", " ">>)
    /\ Cardinality(SegmentStarts(GivenText)) = 0
    /\ ret.value.extra.sentence_count = 1

\* The token starting at position i of a text, and the distinct tokens.
TokenEnd(text, i) ==
    CHOOSE j \in i..Len(text) :
        /\ \A k \in i..j : text[k] \in _TOKEN_RE
        /\ j = Len(text) \/ text[j + 1] \notin _TOKEN_RE
TokenAt(text, i) ==
    [k \in 1..(TokenEnd(text, i) - i + 1) |-> char_lower(text[i + k - 1])]
DistinctTokens(text) == {TokenAt(text, i) : i \in TokenStarts(text)}
\* The last position of the sentence segment starting at position s, and the
\* number of tokens inside that segment.
SegmentEnd(text, s) ==
    CHOOSE j \in s..Len(text) :
        /\ \A k \in s..j : text[k] \notin Terminators
        /\ j = Len(text) \/ text[j + 1] \in Terminators
SegmentTokens(text, s) ==
    Cardinality({i \in TokenStarts(text) : s <= i /\ i <= SegmentEnd(text, s)})
TokensInSegments(text) ==
    Cardinality({<<s, i>> \in SegmentStarts(text) \X TokenStarts(text) :
                    s <= i /\ i <= SegmentEnd(text, s)})

\* C12: lexical_diversity is None iff the text has no token; otherwise it is
\* the number of distinct lower-cased tokens divided by the number of tokens,
\* so it lies in (0, 1] and is 1 iff no token repeats.
C12_LexicalDiversity ==
    AnalyseDone =>
        LET n == Cardinality(TokenStarts(GivenText))
            d == Cardinality(DistinctTokens(GivenText))
            diversity == ret.value.lexical_diversity
            NoRepeat == \A i, j \in TokenStarts(GivenText) :
                            i # j => TokenAt(GivenText, i) # TokenAt(GivenText, j)
        IN  /\ diversity = None <=> n = 0
            /\ n > 0 =>
                  /\ diversity = Some(Rat(d, n))
                  /\ RatLt(RatZero, Val(diversity))
                  /\ RatLe(Val(diversity), RatOne)
                  /\ Val(diversity) = RatOne <=> NoRepeat

\* C12 witness: the text "T t" holds the same token twice, in two cases, and
\* has the diversity 1/2.
C12_Witness ==
    /\ AnalyseDone
    /\ call.content.text = Some(<<"T", " ", "t">>)
    /\ ret.value.lexical_diversity = Some(Rat(1, 2))

\* C13: average_sentence_length is None iff the text has no non-empty sentence
\* segment; otherwise it is the mean of the token counts of the segments, a
\* segment without a token counting as a sentence of length 0.
C13_AverageSentenceLength ==
    AnalyseDone =>
        LET starts == SegmentStarts(GivenText)
            average == ret.value.average_sentence_length
        IN  /\ average = None <=> starts = {}
            /\ starts # {} =>
                  average = Some(Rat(TokensInSegments(GivenText), Cardinality(starts)))

\* C13 witness: the text "1. a" has two segments, of 0 and 1 tokens, and the
\* average 1/2; the text "1" alone has the average 0 and no lexical diversity.
C13_Witness ==
    /\ AnalyseDone
    /\ call.content.text = Some(<<"1">>)
    /\ SegmentTokens(GivenText, 1) = 0
    /\ ret.value.average_sentence_length = Some(RatZero)
    /\ ret.value.lexical_diversity = None

----------------------------------------------------------------------------
(* The scenario of tests/test_analysis.py: analyse_post on the sample text *)
(* and on each of its prefixes                                             *)

HelloText ==
    <<"H","e","l","l","o"," ","w","o","r","l","d","."," ","T","h","i","s"," ",
      "i","s"," ","a"," ","s","i","m","p","l","e"," ","t","e","s","t"," ",
      "p","o","s","t"," ","f","o","r"," ","a","n","a","l","y","t","i","c","s",".">>

\* The distinct lower-cased words of the sample text.
HelloWords ==
    {<<"h","e","l","l","o">>, <<"w","o","r","l","d">>, <<"t","h","i","s">>,
     <<"i","s">>, <<"a">>, <<"s","i","m","p","l","e">>, <<"t","e","s","t">>,
     <<"p","o","s","t">>, <<"f","o","r">>, <<"a","n","a","l","y","t","i","c","s">>}

InitScenario ==
    /\ pc = "call"
    /\ \E k \in 0..Len(HelloText), history \in AnalyseHistories :
          call = [fn |-> "analyse_post",
                  content |-> [summary |-> Summary(Some(DaysAgo(3))),
                               html |-> Some(<<"<", "p", ">">>),
                               text |-> Some(SubSeq(HelloText, 1, k))],
                  history |-> history]
    /\ ret = NoReturn
    /\ ModuleLoaded
    /\ OthersIdle

NextScenario == AnalysePost

SpecScenario == InitScenario /\ [][NextScenario]_vars

ScenarioDone == AnalyseDone /\ call.content.text = Some(HelloText)

\* C11 as claimed: the sample text has 11 words and 2 sentences, a sentiment,
\* and the lexical diversity (distinct words) / 11.
C11_AsClaimed ==
    ScenarioDone =>
        /\ ret.value.extra.word_count = 11
        /\ ret.value.extra.sentence_count = 2
        /\ ret.value.sentiment # None
        /\ ret.value.lexical_diversity = Some(Rat(Cardinality(HelloWords), 11))

\* C11 as amended: the sample text has 10 words and 2 sentences, a sentiment,
\* and the lexical diversity (distinct words) / 10.
C11_SampleText ==
    ScenarioDone =>
        /\ ret.value.extra.word_count = 10
        /\ ret.value.extra.sentence_count = 2
        /\ ret.value.sentiment # None
        /\ ret.value.lexical_diversity = Some(Rat(Cardinality(HelloWords), 10))

\* C11 witness: the sample text was analysed; its ten words are distinct.
C11_Witness ==
    /\ ScenarioDone
    /\ ret.value.keywords # <<>>
    /\ ret.value.lexical_diversity = Some(RatOne)

----------------------------------------------------------------------------
(* _tokenise and _sentence_lengths, called directly *)

MaxScanLen == 3
ScanChars == {"a", "T", "'", " ", ".", "!", "1", "é"}

InitTokenise ==
    /\ pc = "call"
    /\ call \in [fn : {"_tokenise", "_sentence_lengths"},
                 text : SeqsUpTo(ScanChars, MaxScanLen)]
    /\ ret = NoReturn
    /\ ModuleLoaded
    /\ OthersIdle

Tokenise ==
    /\ pc = "call"
    /\ call.fn = "_tokenise"
    /\ ret' = Returned(_tokenise(call.text))
    /\ pc' = "done"
    /\ UNCHANGED <<call, _ANALYSER, log>>
    /\ UNCHANGED others

SentenceLengths ==
    /\ pc = "call"
    /\ call.fn = "_sentence_lengths"
    /\ ret' = Returned(_sentence_lengths(call.text))
    /\ pc' = "done"
    /\ UNCHANGED <<call, _ANALYSER, log>>
    /\ UNCHANGED others

NextTokenise == Tokenise \/ SentenceLengths

SpecTokenise == InitTokenise /\ [][NextTokenise]_vars

\* The members of a set of positions, in the order of the text.
InTextOrder(S) ==
    CHOOSE f \in [1..Cardinality(S) -> S] :
        \A i, j \in 1..Cardinality(S) : i < j => f[i] < f[j]
AsciiLetters == Range(AsciiUpper) \cup Range(AsciiLower)

\* C19: _tokenise returns, in the order of the text, the lower-cased maximal
\* runs of ASCII letters and apostrophes, every other character separating
\* tokens; _sentence_lengths returns, in the order of the text, one token count
\* for each maximal run of characters other than ".", "!" and "?" that is not
\* empty or made of whitespace only.
C19_TokensAndSegments ==
    /\ (pc = "done" /\ call.fn = "_tokenise") =>
          LET starts == InTextOrder(TokenStarts(call.text))
          IN  /\ ret.value = [k \in 1..Len(starts) |-> TokenAt(call.text, starts[k])]
              /\ \A k \in 1..Len(ret.value) :
                    /\ ret.value[k] # <<>>
                    /\ Range(ret.value[k]) \subseteq Range(AsciiLower) \cup {"'"}
              /\ \A i \in DOMAIN call.text :
                    call.text[i] \in AsciiLetters \cup {"'"}
                        <=> \E k \in 1..Len(starts) :
                                starts[k] <= i /\ i <= TokenEnd(call.text, starts[k])
    /\ (pc = "done" /\ call.fn = "_sentence_lengths") =>
          LET starts == InTextOrder(SegmentStarts(call.text))
          IN  ret.value = [k \in 1..Len(starts) |-> SegmentTokens(call.text, starts[k])]

\* C19 witness: "T'é" gives the one token "t'", the letter outside ASCII ending
\* it.
C19_Witness ==
    /\ pc = "done"
    /\ call.fn = "_tokenise"
    /\ call.text = <<"T", "'", "é">>
    /\ ret.value = << <<"t", "'">> >>

\* The second case of C19: "1. " has the segment "1", counted with 0 tokens,
\* and a blank segment that is dropped.
C19_SegmentsReached ==
    /\ pc = "done"
    /\ call.fn = "_sentence_lengths"
    /\ call.text = <<"1", ".", " ">>
    /\ ret.value = <<0>>

----------------------------------------------------------------------------
(* analyse_post on datetimes with and without tzinfo                        *)
(*                                                                          *)
(* In the specifications above all the timestamps of a call are of one      *)
(* kind, and a datetime is its instant.  Here a datetime also says whether  *)
(* it is aware (carries a tzinfo) or naive, as parsers._parse_datetime      *)
(* yields either kind depending on the feed.                                *)

datetime(instant, aware) == [instant |-> instant, aware |-> aware]

Raised(exception) == [kind |-> "raise", exception |-> exception]

\* [summary.published_at for summary in history if summary.published_at]
published_timestamps(history) ==
    LET stamped == SelectSeq(history, LAMBDA summary : ~IsNone(summary.published_at))
    IN  [i \in 1..Len(stamped) |-> Val(stamped[i].published_at)]

\* sorted(timestamps, reverse=True) compares the datetimes; datetime.__lt__
\* raises TypeError when one is naive and the other aware, and a sort of a list
\* holding both kinds has to compare two of different kinds.
sorted_raises(timestamps) ==
    \E i, j \in DOMAIN timestamps : timestamps[i].aware # timestamps[j].aware

\* The history with each datetime replaced by its instant.
instants_of(history) ==
    [i \in DOMAIN history |->
        IF IsNone(history[i].published_at)
        THEN history[i]
        ELSE [history[i] EXCEPT !.published_at = Some(Val(@).instant)]]

\* _publishing_cadence_days(history), returning or raising
publishing_cadence_days_outcome(history) ==
    IF sorted_raises(published_timestamps(history))
    THEN Raised("TypeError")
    ELSE Returned(_publishing_cadence_days(instants_of(history)))

\* analyse_post(content, history), returning or raising: the exception of
\* _publishing_cadence_days(history or []) is not caught.
analyse_post_outcome(content, history, now) ==
    LET given == IF IsNone(history) THEN <<>> ELSE Val(history)
    IN  IF publishing_cadence_days_outcome(given).kind = "raise"
        THEN publishing_cadence_days_outcome(given)
        ELSE Returned(analyse_post(content, Some(instants_of(given)), now))

MaxTzHistory == 3
TzInstants == {DaysAgo(7), DaysAgo(3)}
TzSummaries ==
    {Summary(None)}
        \cup {Summary(Some(datetime(t, aware))) : t \in TzInstants, aware \in BOOLEAN}
TzHistories == {None} \cup {Some(h) : h \in SeqsUpTo(TzSummaries, MaxTzHistory)}
TzTexts == {None, Some(<<" ">>), Some(<<"H", "i", ".">>)}

InitTotality ==
    /\ pc = "call"
    /\ \E text \in TzTexts, history \in TzHistories :
          call = [fn |-> "analyse_post",
                  content |-> [summary |-> Summary(Some(datetime(DaysAgo(3), TRUE))),
                               html |-> None,
                               text |-> text],
                  history |-> history]
    /\ ret = NoReturn
    /\ ModuleLoaded
    /\ OthersIdle

\* analyse_post(content, history) on datetimes of either kind: the call
\* returns, or ends with the exception of the cadence computation, which comes
\* after the sentiment was computed.
AnalysePostOutcome ==
    /\ pc = "call"
    /\ call.fn = "analyse_post"
    /\ \E now \in Clock :
          LET outcome == analyse_post_outcome(call.content, call.history, now)
          IN  /\ ret' = outcome
              /\ log' = Append(log, [content |-> call.content,
                                     history |-> call.history,
                                     outcome |-> outcome])
    /\ LET after == arguments_after_analyse_post(call.content, call.history)
       IN  call' = [call EXCEPT !.content = after.content, !.history = after.history]
    /\ _ANALYSER' =
          IF str_strip(text_or_empty(call.content)) # <<>>
          THEN analyser_after_polarity_scores(_ANALYSER, text_or_empty(call.content))
          ELSE _ANALYSER
    /\ pc' = "done"
    /\ UNCHANGED others

NextTotality == AnalysePostOutcome

SpecTotality == InitTotality /\ [][NextTotality]_vars

\* C16: analyse_post never raises for a well-typed input: a null, empty or
\* whitespace-only text, a null or empty history, entries without a timestamp,
\* equal timestamps, timestamps in any order, aware or naive in any mix.
C16_NeverRaises ==
    (pc = "done" /\ call.fn = "analyse_post") => ret.kind = "return"

\* The call C16 fails on: a history holding a naive and an aware timestamp.
C16_MixedHistoryRaises ==
    /\ pc = "done"
    /\ call.history = Some(<<Summary(Some(datetime(DaysAgo(7), FALSE))),
                             Summary(Some(datetime(DaysAgo(3), TRUE)))>>)
    /\ ret = Raised("TypeError")

\* The other cases C16 lists do return: histories whose timestamps are all of
\* one kind, in any order, equal or not, with or without entries lacking one.
C16_OneKindReturns ==
    (pc = "done" /\ call.fn = "analyse_post") =>
        LET timestamps ==
                published_timestamps(IF IsNone(call.history) THEN <<>>
                                     ELSE Val(call.history))
        IN  (\A i, j \in DOMAIN timestamps : timestamps[i].aware = timestamps[j].aware)
                => ret.kind = "return"

----------------------------------------------------------------------------
(* A session: analyse_post called several times in one process *)

MaxCalls == 3

SessionCalls ==
    [fn : {"analyse_post"},
     content : [summary : {Summary(Some(DaysAgo(3)))},
                html : {None},
                text : {Some(<<"H", "i", ".">>), Some(<<"a", " ", "a">>)}],
     history : {None, Some(<<Summary(Some(DaysAgo(7))), Summary(Some(DaysAgo(10)))>>)}]

InitSession ==
    /\ pc = "call"
    /\ call \in SessionCalls
    /\ ret = NoReturn
    /\ ModuleLoaded
    /\ OthersIdle

\* The caller makes its next call, once the previous one has returned.
NextCall ==
    /\ pc = "done"
    /\ Len(log) < MaxCalls
    /\ call' \in SessionCalls
    /\ pc' = "call"
    /\ ret' = NoReturn
    /\ UNCHANGED <<_ANALYSER, log>>
    /\ UNCHANGED others

NextSession == AnalysePost \/ NextCall

SpecSession == InitSession /\ [][NextSession]_vars

\* Two results that differ at most in extra.generated_at.
SameButGeneratedAt(r1, r2) ==
    [r1 EXCEPT !.extra.generated_at = None] = [r2 EXCEPT !.extra.generated_at = None]

----------------------------------------------------------------------------
(* analyse_post on a history and then on a permutation of it *)

MaxPermuted == 3
PermutedSummaries ==
    {Summary(None),
     Summary(Some(datetime(DaysAgo(10), TRUE))),
     Summary(Some(datetime(DaysAgo(7), TRUE))),
     Summary(Some(datetime(DaysAgo(3), TRUE))),
     Summary(Some(datetime(DaysAgo(3), FALSE)))}

InitPermute ==
    /\ pc = "call"
    /\ \E h \in SeqsUpTo(PermutedSummaries, MaxPermuted) :
          call = [fn |-> "analyse_post",
                  content |-> [summary |-> Summary(Some(datetime(DaysAgo(3), TRUE))),
                               html |-> None,
                               text |-> Some(<<"H", "i", ".">>)],
                  history |-> Some(h)]
    /\ ret = NoReturn
    /\ ModuleLoaded
    /\ OthersIdle

Bijections(n) ==
    {p \in [1..n -> 1..n] : \A i, j \in 1..n : i # j => p[i] # p[j]}

\* The caller calls again with the same content and the history reordered.
CallPermuted ==
    /\ pc = "done"
    /\ Len(log) = 1
    /\ \E p \in Bijections(Len(Val(call.history))) :
          call' = [call EXCEPT !.history =
                      Some([i \in 1..Len(Val(call.history)) |-> Val(call.history)[p[i]]])]
    /\ pc' = "call"
    /\ ret' = NoReturn
    /\ UNCHANGED <<_ANALYSER, log>>
    /\ UNCHANGED others

NextPermute == AnalysePostOutcome \/ CallPermuted

SpecPermute == InitPermute /\ [][NextPermute]_vars

\* Two outcomes that differ at most in extra.generated_at.
SameOutcome(o1, o2) ==
    /\ o1.kind = o2.kind
    /\ o1.kind = "raise" => o1 = o2
    /\ o1.kind = "return" => SameButGeneratedAt(o1.value, o2.value)

\* C18: the order of the history is irrelevant: a call with the same content
\* and any permutation of the history gives the same publishing_cadence_days
\* and the same other fields.
C18_OrderIrrelevant ==
    Len(log) = 2 =>
        /\ SameOutcome(log[1].outcome, log[2].outcome)
        /\ log[1].outcome.kind = "return" =>
              log[1].outcome.value.publishing_cadence_days
                  = log[2].outcome.value.publishing_cadence_days

\* C18 witness: the history 7, 3 and 10 days ago and its permutation 10, 7 and
\* 3 days ago both gave the cadence 7/2.
C18_Witness ==
    /\ Len(log) = 2
    /\ log[1].history = Some(<<Summary(Some(datetime(DaysAgo(7), TRUE))),
                               Summary(Some(datetime(DaysAgo(3), TRUE))),
                               Summary(Some(datetime(DaysAgo(10), TRUE)))>>)
    /\ log[2].history = Some(<<Summary(Some(datetime(DaysAgo(10), TRUE))),
                               Summary(Some(datetime(DaysAgo(7), TRUE))),
                               Summary(Some(datetime(DaysAgo(3), TRUE)))>>)
    /\ log[1].outcome.kind = "return"
    /\ log[2].outcome.value.publishing_cadence_days = Some(Rat(7, 2))

----------------------------------------------------------------------------
(* analyse_post called from several threads at once                         *)
(*                                                                          *)
(* A thread runs the body of analyse_post in three steps, cut where the     *)
(* body reads what the threads share: the local metrics (lines 123-128),    *)
(* the sentiment, which reads the global _ANALYSER (lines 130-138), and the *)
(* rest with the read of the clock (lines 140-165).  A thread switch can    *)
(* come between any two steps.  The main thread waits for the others.       *)

NThreads == 2

ThreadIds == 1..NThreads

ThreadArguments ==
    [content : [summary : {Summary(Some(DaysAgo(3)))},
                html : {None},
                text : {Some(<<"H", "i", ".">>), Some(<<" ">>)}],
     history : {None, Some(<<Summary(Some(DaysAgo(7))), Summary(Some(DaysAgo(10)))>>)}]

\* analyse_post_given on the arguments a thread can have, before the sentiment
\* is filled in: the part of a call that reads nothing but its arguments and
\* the clock, computed once for all the threads.
AnalyticsGiven ==
    {[content |-> arguments.content, history |-> arguments.history, now |-> now,
      result |-> analyse_post_given(arguments.content, arguments.history, now, None)] :
        arguments \in ThreadArguments, now \in Clock}

\* The frame of a thread that has just entered analyse_post.
Entered(arguments) ==
    [pc |-> "metrics", content |-> arguments.content, history |-> arguments.history,
     sentiment |-> None, result |-> NoReturn]

InitThreads ==
    /\ pc = "join"
    /\ call = [fn |-> "join"]
    /\ ret = NoReturn
    /\ ModuleLoaded
    /\ CacheIdle
    /\ ClientIdle
    /\ \E arguments \in [ThreadIds -> ThreadArguments] :
          threads = [t \in ThreadIds |-> Entered(arguments[t])]

\* Lines 123-128: text, tokens and the counts, all local to the call.
ThreadMetrics(t) ==
    /\ threads[t].pc = "metrics"
    /\ threads' = [threads EXCEPT ![t].pc = "sentiment"]
    /\ UNCHANGED <<pc, call, ret, _ANALYSER, log>>
    /\ UNCHANGED cache_vars
    /\ UNCHANGED client_vars

\* Lines 130-138: the sentiment, from the shared analyser.
ThreadSentiment(t) ==
    /\ threads[t].pc = "sentiment"
    /\ threads' = [threads EXCEPT
                      ![t].sentiment = post_sentiment(text_or_empty(threads[t].content)),
                      ![t].pc = "assemble"]
    /\ _ANALYSER' =
          IF str_strip(text_or_empty(threads[t].content)) # <<>>
          THEN analyser_after_polarity_scores(_ANALYSER,
                                              text_or_empty(threads[t].content))
          ELSE _ANALYSER
    /\ UNCHANGED <<pc, call, ret, log>>
    /\ UNCHANGED cache_vars
    /\ UNCHANGED client_vars

\* Lines 140-165: the other fields and the record returned, which carries the
\* sentiment computed before.
ThreadAssemble(t) ==
    /\ threads[t].pc = "assemble"
    /\ \E now \in Clock, given \in AnalyticsGiven :
          /\ given.content = threads[t].content
          /\ given.history = threads[t].history
          /\ given.now = now
          /\ threads' = [threads EXCEPT
                            ![t].result =
                                Returned([given.result EXCEPT
                                             !.sentiment = threads[t].sentiment]),
                            ![t].pc = "done"]
    /\ UNCHANGED <<pc, call, ret, _ANALYSER, log>>
    /\ UNCHANGED cache_vars
    /\ UNCHANGED client_vars

ThreadStep(t) == ThreadMetrics(t) \/ ThreadSentiment(t) \/ ThreadAssemble(t)

\* The main thread has joined every thread.
Join ==
    /\ pc = "join"
    /\ \A t \in ThreadIds : threads[t].pc = "done"
    /\ pc' = "done"
    /\ UNCHANGED <<call, ret, _ANALYSER, log, threads>>
    /\ UNCHANGED cache_vars
    /\ UNCHANGED client_vars

NextThreads ==
    \/ \E t \in ThreadIds : ThreadMetrics(t)
    \/ \E t \in ThreadIds : ThreadSentiment(t)
    \/ \E t \in ThreadIds : ThreadAssemble(t)
    \/ Join

SpecThreads == InitThreads /\ [][NextThreads]_vars

\* What a call on the arguments of thread t returns when it runs alone, on
\* the analyser as module load left it; generated_at is left out.
SentimentAlone(text) ==
    IF str_strip(text) # <<>>
    THEN Some([negative |-> <<"neg", LoadedAnalyser, text>>,
               neutral |-> <<"neu", LoadedAnalyser, text>>,
               positive |-> <<"pos", LoadedAnalyser, text>>,
               compound |-> <<"compound", LoadedAnalyser, text>>])
    ELSE None
ResultAlone(t) ==
    analyse_post_given(threads[t].content, threads[t].history, 0,
                       SentimentAlone(text_or_empty(threads[t].content)))

----------------------------------------------------------------------------
(* cache.py: the cached decorator over a cachetools TTLCache, one caller    *)
(*                                                                          *)
(* A cache entry is [key, value, expires]; the sequence _cache keeps the    *)
(* entries in the order of TTLCache's links, from the least to the most     *)
(* recently used.  Every TTLCache method reads the timer when it runs.      *)

\* _cache = TTLCache(maxsize=256, ttl=SETTINGS.cache_ttl.total_seconds())
maxsize == 256
cache_ttl == 900

has_link(cache, key) == \E i \in DOMAIN cache : cache[i].key = key
link_of(cache, key) == cache[CHOOSE i \in DOMAIN cache : cache[i].key = key]

\* TTLCache.__contains__: the key has a link and the timer is before its expiry
ttl_contains(cache, key, time) ==
    has_link(cache, key) /\ time < link_of(cache, key).expires

\* TTLCache.__getlink: the link becomes the most recently used
move_to_end(cache, key) ==
    IF has_link(cache, key)
    THEN Append(SelectSeq(cache, LAMBDA e : e.key # key), link_of(cache, key))
    ELSE cache

\* TTLCache.__getitem__: the value, or KeyError from __missing__ when the key
\* has no link or the timer has reached the expiry of its link
ttl_getitem(cache, key, time) ==
    IF has_link(cache, key) /\ time < link_of(cache, key).expires
    THEN Returned(link_of(cache, key).value)
    ELSE Raised("KeyError")

\* TTLCache.expire(time): drop every entry whose expiry the time has reached
expire(cache, time) == SelectSeq(cache, LAMBDA e : time < e.expires)

\* Cache.__setitem__'s loop: popitem() drops the least recently used entry
\* while there is no room for one more
RECURSIVE make_room(_)
make_room(cache) ==
    IF Len(cache) + 1 > maxsize THEN make_room(Tail(cache)) ELSE cache

\* The mutant of ttl_setitem that adds the entry without looking for the key.
ttl_setitem_appends(cache, key, value, time) ==
    Append(expire(cache, time),
           [key |-> key, value |-> value, expires |-> time + cache_ttl])

\* TTLCache.__setitem__: expire, make room for a new key, store the value and
\* make the link the most recently used, expiring ttl from now
ttl_setitem(cache, key, value, time) ==
    LET live == expire(cache, time)
        room == IF has_link(live, key) THEN live ELSE make_room(live)
    IN  Append(SelectSeq(room, LAMBDA e : e.key # key),
               [key |-> key, value |-> value, expires |-> time + cache_ttl])

\* key = (func.__qualname__, _normalise(args), _normalise(kwargs)) of a call
\* fetch_post(n)
CacheKey(n) == <<"fetch_post", <<n>>, <<>>>>

\* What the n-th invocation of the wrapped function returns for a key.
FuncResult(key, n) == [of |-> key, invocation |-> n]

MaxCachedCalls == 3
MaxTicks == 3
TickSeconds == cache_ttl \div 2

\* A full cache: the entry of key 0 followed by 255 entries used after it,
\* all stored at time 0 by calls made before.
FullCache ==
    [i \in 1..maxsize |->
        [key |-> CacheKey(i - 1), value |-> FuncResult(CacheKey(i - 1), 0),
         expires |-> cache_ttl]]

CalledKeys == {CacheKey(0), CacheKey(maxsize)}

\* A call of the wrapper: its key, whether the lookup found the key and the
\* value stored for it then, whether the function was invoked, and its result.
WrapperCall(key) ==
    [fn |-> "cached", key |-> key, found |-> FALSE, stored |-> None,
     invoked |-> FALSE, result |-> None]

InitCache ==
    /\ pc = "call"
    /\ \E key \in CalledKeys : call = WrapperCall(key)
    /\ ret = NoReturn
    /\ ModuleLoaded
    /\ threads = <<>>
    /\ _cache \in {<<>>, FullCache}
    /\ timer = 0
    /\ invocations = <<>>
    /\ ClientIdle

\* Time passes.
Tick ==
    /\ timer + TickSeconds <= MaxTicks * TickSeconds
    /\ timer' = timer + TickSeconds
    /\ UNCHANGED <<pc, call, ret, _ANALYSER, log, threads, _cache, invocations>>
    /\ UNCHANGED client_vars

\* with _lock: if key in _cache:
WrapperContains ==
    /\ pc = "call"
    /\ call.fn = "cached"
    /\ IF ttl_contains(_cache, call.key, timer)
       THEN /\ call' = [call EXCEPT !.found = TRUE,
                                    !.stored = Some(link_of(_cache, call.key).value)]
            /\ pc' = "getitem"
       ELSE /\ call' = call
            /\ pc' = "func"
    /\ UNCHANGED <<ret, _ANALYSER, log, threads, _cache, timer, invocations>>
    /\ UNCHANGED client_vars

\* return _cache[key]
WrapperGetItem ==
    /\ pc = "getitem"
    /\ ret' = ttl_getitem(_cache, call.key, timer)
    /\ _cache' = move_to_end(_cache, call.key)
    /\ pc' = "done"
    /\ UNCHANGED <<call, _ANALYSER, log, threads, timer, invocations>>
    /\ UNCHANGED client_vars

\* result = func(*args, **kwargs)
WrapperFunc ==
    /\ pc = "func"
    /\ invocations' = Append(invocations, call.key)
    /\ call' = [call EXCEPT !.invoked = TRUE,
                            !.result = Some(FuncResult(call.key, Len(invocations) + 1))]
    /\ pc' = "store"
    /\ UNCHANGED <<ret, _ANALYSER, log, threads, _cache, timer>>
    /\ UNCHANGED client_vars

\* with _lock: _cache[key] = result; return result
WrapperStore ==
    /\ pc = "store"
    /\ _cache' = ttl_setitem(_cache, call.key, Val(call.result), timer)
    /\ ret' = Returned(Val(call.result))
    /\ pc' = "done"
    /\ UNCHANGED <<call, _ANALYSER, log, threads, timer, invocations>>
    /\ UNCHANGED client_vars

\* The caller makes its next call of the wrapper, once the previous one ended.
NextCachedCall ==
    /\ pc = "done"
    /\ call.fn = "cached"
    /\ Len(invocations) < MaxCachedCalls
    /\ \E key \in CalledKeys : call' = WrapperCall(key)
    /\ pc' = "call"
    /\ ret' = NoReturn
    /\ UNCHANGED <<_ANALYSER, log, threads, _cache, timer, invocations>>
    /\ UNCHANGED client_vars

NextCache ==
    \/ Tick
    \/ WrapperContains
    \/ WrapperGetItem
    \/ WrapperFunc
    \/ WrapperStore
    \/ NextCachedCall

SpecCache == InitCache /\ [][NextCache]_vars

CachedDone == pc = "done" /\ call.fn = "cached"

\* C20: with one caller, a call whose lookup finds its key in the cache, not
\* yet expired or evicted, returns the stored result without invoking the
\* wrapped function; a call whose lookup does not find it invokes the
\* function, returns its result and leaves it stored.
C20_HitOrFreshResult ==
    CachedDone =>
        /\ call.found =>
              /\ ret = Returned(Val(call.stored))
              /\ ~call.invoked
        /\ ~call.found =>
              /\ call.invoked
              /\ ret = Returned(Val(call.result))
              /\ has_link(_cache, call.key)
              /\ link_of(_cache, call.key).value = Val(call.result)

\* The call C20 fails on: the lookup found the key before its expiry, the
\* entry expired before the read, and the call ended with KeyError, neither
\* returning the stored result nor invoking the function.
C20_KeyErrorReached ==
    /\ CachedDone
    /\ call.found
    /\ ~call.invoked
    /\ ret = Raised("KeyError")

\* But for that KeyError, the wrapper does as C20 says: a call that returns
\* gives the stored result on a hit and a fresh, stored one otherwise.
C20_WhenReturning ==
    (CachedDone /\ ret.kind = "return") =>
        /\ call.found => ret.value = Val(call.stored) /\ ~call.invoked
        /\ ~call.found =>
              /\ call.invoked
              /\ ret.value = Val(call.result)
              /\ has_link(_cache, call.key)
              /\ link_of(_cache, call.key).value = Val(call.result)

\* After an eviction: key 0 was the least recently used entry of a full cache,
\* a call for another key evicted it, and the next call for key 0 invoked the
\* function again.
C20_EvictionReached ==
    /\ CachedDone
    /\ call.key = CacheKey(0)
    /\ invocations = <<CacheKey(maxsize), CacheKey(0)>>
    /\ timer = 0
    /\ Len(_cache) = maxsize

\* After an expiry: the second call for a key, made once the ttl had passed,
\* invoked the function again.
C20_ExpiryReached ==
    /\ CachedDone
    /\ invocations = <<CacheKey(0), CacheKey(0)>>
    /\ ret.value.invocation = 2
    /\ Len(_cache) = 1

----------------------------------------------------------------------------
(* Relations between the values analyse_post computes *)

\* C28: the floor of 1 on the sentence count does not show in the readability
\* scores: the two scores analyse_post returns are those the formulas give for
\* the number of segments as counted, without the floor.
C28_FloorUnobservable ==
    AnalyseDone =>
        LET counted == Len(_sentence_lengths(GivenText))
            words == ret.value.extra.word_count
            syllables == ret.value.extra.syllable_count
        IN  /\ ret.value.flesch_reading_ease
                  = _flesch_reading_ease(words, counted, syllables)
            /\ ret.value.flesch_kincaid_grade
                  = _flesch_kincaid_grade(words, counted, syllables)
            /\ counted = 0 => words = 0

\* C28 witness: the text " ." has no segment that counts, is reported with
\* sentence_count 1, and both scores are 0.
C28_Witness ==
    /\ AnalyseDone
    /\ call.content.text = Some(<<" ", ".">>)
    /\ _sentence_lengths(GivenText) = <<>>
    /\ ret.value.extra.sentence_count = 1
    /\ ret.value.flesch_reading_ease = RatZero
    /\ ret.value.flesch_kincaid_grade = RatZero

\* C29: the token counts of the sentences add up to the number of tokens of
\* the text; so a text with a word has a segment that counts, and the average
\* sentence length, when present, is word_count divided by the number of such
\* segments.
C29_TokensInSegments ==
    AnalyseDone =>
        LET lengths == _sentence_lengths(GivenText)
            words == ret.value.extra.word_count
        IN  /\ words = Len(_tokenise(GivenText))
            /\ SumInts(lengths) = words
            /\ TokensInSegments(GivenText) = Cardinality(TokenStarts(GivenText))
            /\ words > 0 => SegmentStarts(GivenText) # {}
            /\ ~IsNone(ret.value.average_sentence_length) =>
                  ret.value.average_sentence_length
                      = Some(Rat(words, Cardinality(SegmentStarts(GivenText))))

\* C29 witness: "a.'t" has two tokens in two sentences, one on each side of
\* the full stop, and the average length 1.
C29_Witness ==
    /\ AnalyseDone
    /\ call.content.text = Some(<<"a", ".", "'", "t">>)
    /\ _sentence_lengths(GivenText) = <<1, 1>>
    /\ ret.value.extra.word_count = 2
    /\ ret.value.average_sentence_length = Some(RatOne)

\* The latest and the earliest timestamp of a history.
Latest(history) ==
    CHOOSE t \in {Val(history[i].published_at) : i \in StampedPositions(history)} :
        \A i \in StampedPositions(history) : Val(history[i].published_at) <= t
Earliest(history) ==
    CHOOSE t \in {Val(history[i].published_at) : i \in StampedPositions(history)} :
        \A i \in StampedPositions(history) : t <= Val(history[i].published_at)

\* C30: with n >= 2 timestamps in the history, the cadence is (latest -
\* earliest), in days, divided by n - 1: it is a function of the two extremes
\* and of n alone, is never negative, and is 0 iff all the timestamps are equal.
C30_CadenceFromExtremes ==
    (pc = "done" /\ Cardinality(StampedPositions(CalledHistory)) >= 2) =>
        LET history == CalledHistory
            n == Cardinality(StampedPositions(history))
            span == Latest(history) - Earliest(history)
        IN  /\ ReturnedCadence = Some(Rat(span, SecondsPerDay * (n - 1)))
            /\ RatLe(RatZero, Val(ReturnedCadence))
            /\ Val(ReturnedCadence) = RatZero <=> Latest(history) = Earliest(history)

\* C30 witness: the timestamps 0, 7 and 7.5 days and the timestamps 0, 3 and
\* 7.5 days, which differ in the middle one only, both have the cadence 3.75
\* days; here the first history was called.
C30_Witness ==
    /\ pc = "done"
    /\ call.fn = "_publishing_cadence_days"
    /\ call.history = <<Summary(Some(DaysAgo(10))),
                        Summary(Some(DaysAgo(3))),
                        Summary(Some(DaysAgo(3) + (SecondsPerDay \div 2)))>>
    /\ ret.value = Some(Rat(15, 4))
    /\ ret.value = _publishing_cadence_days(
                       <<Summary(Some(DaysAgo(10))),
                         Summary(Some(DaysAgo(7))),
                         Summary(Some(DaysAgo(3) + (SecondsPerDay \div 2)))>>)

----------------------------------------------------------------------------
(* The cache key of a call of a cached client method                        *)
(*                                                                          *)
(* A call form is what the caller wrote: the positional arguments after     *)
(* self and the keyword arguments, as pairs <<name, value>>.  A Python dict *)
(* of keyword arguments is the sequence of its items.                       *)

\* The one client object of the process, and repr() of an object without a
\* __repr__ of its own: its class and its address.
substack_client == [class |-> "SubstackPublicClient", address |-> "0x7f00"]
object_repr(object) == <<"<", object.class, " object at ", object.address, ">">>

\* def fetch_feed(self, handle, limit=20)
fetch_feed_default_limit == 20

\* _normalise of the args of a method call: self falls back to repr(), the
\* strings and integers after it are kept
normalise_args(args) == <<object_repr(args[1])>> \o Tail(args)

\* _normalise of the kwargs dict: tuple(sorted((k, _normalise(v)) ...)), the
\* items in the order of their names
RECURSIVE sorted_items(_)
sorted_items(items) ==
    IF items = {} THEN <<>>
    ELSE LET first == CHOOSE item \in items :
                          \A other \in items :
                              other = item
                                  \/ (item[1] = "handle" /\ other[1] = "limit")
         IN  <<first>> \o sorted_items(items \ {first})
normalise_kwargs(kwargs) == sorted_items({kwargs[i] : i \in DOMAIN kwargs})

\* key = (func.__qualname__, _normalise(args), _normalise(kwargs))
wrapper_key(qualname, args, kwargs) ==
    <<qualname, normalise_args(args), normalise_kwargs(kwargs)>>

\* The parameters fetch_feed runs with: Python binds the positional arguments
\* in order, then the keywords, then the default of limit.
keyword_value(kwargs, name, default) ==
    IF \E i \in DOMAIN kwargs : kwargs[i][1] = name
    THEN kwargs[CHOOSE i \in DOMAIN kwargs : kwargs[i][1] = name][2]
    ELSE default
bind_fetch_feed(positional, kwargs) ==
    [handle |-> IF Len(positional) >= 1 THEN <<positional[1]>>
                ELSE <<keyword_value(kwargs, "handle", "")>>,
     limit |-> IF Len(positional) >= 2 THEN positional[2]
               ELSE keyword_value(kwargs, "limit", fetch_feed_default_limit)]

MaxMethodCalls == 2
Handles == {"h", "g"}
Limits == {10, fetch_feed_default_limit}

\* The ways a caller writes fetch_feed(handle, limit).
CallForms ==
    {[positional |-> <<h, l>>, kwargs |-> <<>>] : h \in Handles, l \in Limits}
        \cup {[positional |-> <<h>>, kwargs |-> << <<"limit", l>> >>] :
                 h \in Handles, l \in Limits}
        \cup {[positional |-> <<>>, kwargs |-> << <<"limit", l>>, <<"handle", h>> >>] :
                 h \in Handles, l \in Limits}
        \cup {[positional |-> <<h>>, kwargs |-> <<>>] : h \in Handles}

\* A call of the wrapper of fetch_feed written in the given form; earlier
\* holds the parameters of the calls this caller completed before.
MethodCall(form, earlier) ==
    [fn |-> "cached",
     key |-> wrapper_key("SubstackPublicClient.fetch_feed",
                         <<substack_client>> \o form.positional, form.kwargs),
     found |-> FALSE, stored |-> None, invoked |-> FALSE, result |-> None,
     form |-> form,
     bound |-> bind_fetch_feed(form.positional, form.kwargs),
     earlier |-> earlier]

InitKey ==
    /\ pc = "call"
    /\ \E form \in CallForms : call = MethodCall(form, <<>>)
    /\ ret = NoReturn
    /\ ModuleLoaded
    /\ OthersIdle

\* The caller calls the method again, in any form.
NextMethodCall ==
    /\ pc = "done"
    /\ call.fn = "cached"
    /\ Len(call.earlier) + 1 < MaxMethodCalls
    /\ \E form \in CallForms :
          call' = MethodCall(form, Append(call.earlier, [form |-> call.form,
                                                         bound |-> call.bound]))
    /\ pc' = "call"
    /\ ret' = NoReturn
    /\ UNCHANGED <<_ANALYSER, log, threads, _cache, timer, invocations>>
    /\ UNCHANGED client_vars

NextKey ==
    \/ WrapperContains
    \/ WrapperGetItem
    \/ WrapperFunc
    \/ WrapperStore
    \/ NextMethodCall

SpecKey == InitKey /\ [][NextKey]_vars

SecondCallDone == CachedDone /\ Len(call.earlier) = 1

\* C21: two calls of fetch_feed on the same client share a cache entry when
\* they bind the same parameter values, however the values are passed, and
\* never share one when they bind different values.
C21_KeyIsBoundParameters ==
    SecondCallDone => (call.found <=> call.bound = call.earlier[1].bound)

\* The calls C21 fails on: fetch_feed(h, 10) and then fetch_feed(h, limit=10)
\* bind the same values, and the second one missed the cache and invoked the
\* function again.
C21_SplitEntriesReached ==
    /\ SecondCallDone
    /\ call.earlier[1].form = [positional |-> <<"h", 10>>, kwargs |-> <<>>]
    /\ call.form = [positional |-> <<"h">>, kwargs |-> << <<"limit", 10>> >>]
    /\ call.bound = call.earlier[1].bound
    /\ ~call.found
    /\ Len(_cache) = 2

\* What does hold of the key: calls written in the same form share an entry
\* iff their values are equal, keyword arguments in any order, and calls that
\* bind different values never share one.
C21_SameFormOrDifferentValues ==
    SecondCallDone =>
        /\ call.bound # call.earlier[1].bound => ~call.found
        /\ (/\ call.form.positional = call.earlier[1].form.positional
            /\ {call.form.kwargs[i] : i \in DOMAIN call.form.kwargs}
                  = {call.earlier[1].form.kwargs[i] :
                        i \in DOMAIN call.earlier[1].form.kwargs})
              => call.found

----------------------------------------------------------------------------
(* The cached decorator over a function that can raise:                     *)
(* SubstackPublicClient.fetch_author_profile                                *)

\* The mutant of fetch_author_profile that lets the 404 error through.
fetch_author_profile_raises_404(handle, status, n) ==
    IF status = 200
    THEN Returned(Some([handle |-> handle, fetched |-> n]))
    ELSE Raised("HTTPStatusError")

\* fetch_author_profile(handle) when the GET of the about page ends with the
\* given status, as the n-th invocation: the parsed profile, None on 404, and
\* the HTTPStatusError of raise_for_status() otherwise.
fetch_author_profile(handle, status, n) ==
    IF status = 200
    THEN Returned(Some([handle |-> handle, fetched |-> n]))
    ELSE IF status = 404
    THEN Returned(None)
    ELSE Raised("HTTPStatusError")

MaxProfileCalls == 3
Statuses == {200, 404, 500}

\* A call of the wrapper of fetch_author_profile: serial numbers the calls of
\* the caller, before is the cache as the call found it, previous the key and
\* the outcome of the call before it.
ProfileCall(handle, serial, before, previous) ==
    [fn |-> "cached",
     key |-> wrapper_key("SubstackPublicClient.fetch_author_profile",
                         <<substack_client, handle>>, <<>>),
     found |-> FALSE, stored |-> None, invoked |-> FALSE, result |-> None,
     handle |-> handle, status |-> 0, serial |-> serial,
     before |-> before, previous |-> previous]

NoPrevious == [key |-> <<>>, kind |-> "none"]

InitFailure ==
    /\ pc = "call"
    /\ \E handle \in Handles : call = ProfileCall(handle, 1, <<>>, NoPrevious)
    /\ ret = NoReturn
    /\ ModuleLoaded
    /\ OthersIdle

\* result = func(*args, **kwargs), func being fetch_author_profile: when it
\* raises, the exception leaves the wrapper.
WrapperFetchAuthorProfile ==
    /\ pc = "func"
    /\ \E status \in Statuses :
          LET outcome == fetch_author_profile(call.handle, status,
                                              Len(invocations) + 1)
          IN  IF outcome.kind = "raise"
              THEN /\ call' = [call EXCEPT !.invoked = TRUE, !.status = status]
                   /\ ret' = outcome
                   /\ pc' = "done"
              ELSE /\ call' = [call EXCEPT !.invoked = TRUE, !.status = status,
                                           !.result = Some(outcome.value)]
                   /\ ret' = ret
                   /\ pc' = "store"
    /\ invocations' = Append(invocations, call.key)
    /\ UNCHANGED <<_ANALYSER, log, threads, _cache, timer>>
    /\ UNCHANGED client_vars

\* The caller makes its next call, once the previous one has ended.
NextProfileCall ==
    /\ pc = "done"
    /\ call.fn = "cached"
    /\ call.serial < MaxProfileCalls
    /\ \E handle \in Handles :
          call' = ProfileCall(handle, call.serial + 1, _cache,
                              [key |-> call.key, kind |-> ret.kind])
    /\ pc' = "call"
    /\ ret' = NoReturn
    /\ UNCHANGED <<_ANALYSER, log, threads, _cache, timer, invocations>>
    /\ UNCHANGED client_vars

NextFailure ==
    \/ Tick
    \/ WrapperContains
    \/ WrapperGetItem
    \/ WrapperFetchAuthorProfile
    \/ WrapperStore
    \/ NextProfileCall

SpecFailure == InitFailure /\ [][NextFailure]_vars

\* C22: when the wrapped function raises, the exception reaches the caller
\* and the cache is as the call found it; the next call with the same key
\* invokes the function again.  A None the function returns (the 404 of
\* fetch_author_profile) is stored like any result, and a later call with that
\* key that ends before the entry expires is given it without an invocation.
C22_FailureNotCached ==
    CachedDone =>
        /\ (call.invoked /\ call.status = 500) =>
              /\ ret = Raised("HTTPStatusError")
              /\ _cache = call.before
        /\ (call.previous.kind = "raise" /\ call.previous.key = call.key) =>
              call.invoked
        /\ (call.invoked /\ call.status = 404) =>
              /\ ret = Returned(None)
              /\ has_link(_cache, call.key)
              /\ link_of(_cache, call.key).value = None
        /\ (has_link(call.before, call.key)
               /\ timer < link_of(call.before, call.key).expires) =>
              /\ ret = Returned(link_of(call.before, call.key).value)
              /\ ~call.invoked

\* C22 witness: the first call raised and left the cache empty, the second
\* call with the same key invoked the function again, got None from the 404
\* and stored it, and the third call was given the stored None.
C22_Witness ==
    /\ CachedDone
    /\ call.serial = 3
    /\ invocations = <<call.key, call.key>>
    /\ call.found
    /\ ~call.invoked
    /\ ret = Returned(None)
    /\ call.previous = [key |-> call.key, kind |-> "return"]
    /\ Len(_cache) = 1

\* The other half of the witness: a call that raised, with the cache as it was.
C22_RaiseReached ==
    /\ CachedDone
    /\ call.serial = 2
    /\ call.previous = [key |-> call.key, kind |-> "raise"]
    /\ ret = Raised("HTTPStatusError")
    /\ _cache = <<>>
    /\ Len(invocations) = 2

----------------------------------------------------------------------------
(* The shared client called from worker threads: a cached fetch_feed, the   *)
(* lock of the cache and the request throttle                               *)
(*                                                                          *)
(* Each worker runs wrapper(self, handle, limit) of fetch_feed step by      *)
(* step: it takes the lock, looks the key up, and on a miss releases the    *)
(* lock, runs _throttle and the GET, takes the lock again and stores.  The  *)
(* wall clock is counted in units of 1/ClockUnitsPerSecond seconds.         *)

\* settings.throttle_seconds
throttle_seconds == 1
ClockUnitsPerSecond == 2
Throttle == throttle_seconds * ClockUnitsPerSecond

\* The mutant of throttle_remaining that waits for half the interval only.
throttle_remaining_half(now, last) == (Throttle \div 2) - (now - last)

\* delta = time.time() - self._last_request_ts
\* remaining = self.settings.throttle_seconds - delta
throttle_remaining(now, last) == Throttle - (now - last)

NWorkers == 2
MaxFetches == 3
MaxWall == 1
FetchHandles == {"h", "g"}

\* What the n-th GET of a feed is parsed to.
FeedResult(handle, n) == [feed |-> handle, fetched |-> n]

\* The frame of a worker entering wrapper(self, handle, 10); requests_before
\* and last_before are the requests issued and _last_request_ts at the call.
FetchCall(handle, serial, requests_before, last_before) ==
    [pc |-> "acquire",
     handle |-> handle,
     key |-> wrapper_key("SubstackPublicClient.fetch_feed",
                         <<substack_client, handle, 10>>, <<>>),
     found |-> FALSE, invoked |-> FALSE, result |-> None, ret |-> NoReturn,
     wake |-> 0, stamp |-> 0, serial |-> serial,
     requests_before |-> requests_before, last_before |-> last_before]

\* The client is made at least throttle_seconds after the epoch; the first
\* thread fetches "h", the handles being alike.
InitClient(workers) ==
    /\ pc = "join"
    /\ call = [fn |-> "join"]
    /\ ret = NoReturn
    /\ ModuleLoaded
    /\ CacheIdle
    /\ _lock = NoOwner
    /\ wall = Throttle
    /\ _last_request_ts = 0
    /\ requests = <<>>
    /\ \E handles \in [1..workers -> FetchHandles] :
          /\ handles[1] = "h"
          /\ threads = [t \in 1..workers |-> FetchCall(handles[t], 1, 0, 0)]

\* One thread calling the fetch methods one after another.
InitSequentialClient == InitClient(1)

\* The thread-pool workers of the servers, all on the one shared client.
InitConcurrentClient == InitClient(NWorkers)

Sleeping(t) == threads[t].pc = "sleep" /\ wall < threads[t].wake

\* Time passes; it does so for as long as a thread sleeps.
ClockTick ==
    /\ wall < Throttle + MaxWall \/ \E t \in DOMAIN threads : Sleeping(t)
    /\ wall' = wall + 1
    /\ UNCHANGED <<pc, call, ret, _ANALYSER, log, threads, _cache, timer,
                   invocations, _lock, _last_request_ts, requests>>

\* with _lock: (cache.py:35) the thread waits until the lock is free
WorkerAcquire(t) ==
    /\ threads[t].pc = "acquire"
    /\ _lock = NoOwner
    /\ _lock' = t
    /\ threads' = [threads EXCEPT ![t].pc = "contains"]
    /\ UNCHANGED <<pc, call, ret, _ANALYSER, log, _cache, timer, invocations,
                   wall, _last_request_ts, requests>>

\* if key in _cache: on a miss the with block ends and frees the lock
WorkerContains(t) ==
    /\ threads[t].pc = "contains"
    /\ IF ttl_contains(_cache, threads[t].key, timer)
       THEN /\ threads' = [threads EXCEPT ![t].found = TRUE, ![t].pc = "getitem"]
            /\ _lock' = _lock
       ELSE /\ threads' = [threads EXCEPT ![t].pc = "throttle"]
            /\ _lock' = NoOwner
    /\ UNCHANGED <<pc, call, ret, _ANALYSER, log, _cache, timer, invocations,
                   wall, _last_request_ts, requests>>

\* return _cache[key]: the return leaves the with block and frees the lock
WorkerGetItem(t) ==
    /\ threads[t].pc = "getitem"
    /\ threads' = [threads EXCEPT
                      ![t].ret = ttl_getitem(_cache, threads[t].key, timer),
                      ![t].pc = "done"]
    /\ _cache' = move_to_end(_cache, threads[t].key)
    /\ _lock' = NoOwner
    /\ UNCHANGED <<pc, call, ret, _ANALYSER, log, timer, invocations,
                   wall, _last_request_ts, requests>>

\* func is entered; _throttle reads the clock and _last_request_ts and sleeps
\* when remaining > 0 (client.py:46-49)
WorkerThrottle(t) ==
    /\ threads[t].pc = "throttle"
    /\ LET remaining == throttle_remaining(wall, _last_request_ts)
       IN  threads' = [threads EXCEPT
                          ![t].invoked = TRUE,
                          ![t].wake = IF remaining > 0 THEN wall + remaining ELSE wall,
                          ![t].pc = IF remaining > 0 THEN "sleep" ELSE "stamp"]
    /\ invocations' = Append(invocations, threads[t].key)
    /\ UNCHANGED <<pc, call, ret, _ANALYSER, log, _cache, timer,
                   _lock, wall, _last_request_ts, requests>>

\* time.sleep(remaining) returns, not before the time asked for has passed
WorkerWake(t) ==
    /\ threads[t].pc = "sleep"
    /\ wall >= threads[t].wake
    /\ threads' = [threads EXCEPT ![t].pc = "stamp"]
    /\ UNCHANGED <<pc, call, ret, _ANALYSER, log, _cache, timer, invocations,
                   _lock, wall, _last_request_ts, requests>>

\* self._last_request_ts = time.time()
WorkerStamp(t) ==
    /\ threads[t].pc = "stamp"
    /\ _last_request_ts' = wall
    /\ threads' = [threads EXCEPT ![t].stamp = wall, ![t].pc = "get"]
    /\ UNCHANGED <<pc, call, ret, _ANALYSER, log, _cache, timer, invocations,
                   _lock, wall, requests>>

\* response = self._client.get(url); response.raise_for_status(); the feed is
\* parsed, or the HTTPStatusError leaves fetch_feed and the wrapper
WorkerGet(t) ==
    /\ threads[t].pc = "get"
    /\ requests' = Append(requests, [thread |-> t, handle |-> threads[t].handle,
                                     stamp |-> threads[t].stamp])
    /\ \E status \in {200, 500} :
          threads' =
              IF status = 200
              THEN [threads EXCEPT
                       ![t].result = Some(FeedResult(threads[t].handle,
                                                     Len(requests) + 1)),
                       ![t].pc = "acquire_store"]
              ELSE [threads EXCEPT ![t].ret = Raised("HTTPStatusError"),
                                   ![t].pc = "done"]
    /\ UNCHANGED <<pc, call, ret, _ANALYSER, log, _cache, timer, invocations,
                   _lock, wall, _last_request_ts>>

\* with _lock: (cache.py:39)
WorkerAcquireStore(t) ==
    /\ threads[t].pc = "acquire_store"
    /\ _lock = NoOwner
    /\ _lock' = t
    /\ threads' = [threads EXCEPT ![t].pc = "store"]
    /\ UNCHANGED <<pc, call, ret, _ANALYSER, log, _cache, timer, invocations,
                   wall, _last_request_ts, requests>>

\* _cache[key] = result; the with block ends; return result
WorkerStore(t) ==
    /\ threads[t].pc = "store"
    /\ _cache' = ttl_setitem(_cache, threads[t].key, Val(threads[t].result), timer)
    /\ _lock' = NoOwner
    /\ threads' = [threads EXCEPT ![t].ret = Returned(Val(threads[t].result)),
                                  ![t].pc = "done"]
    /\ UNCHANGED <<pc, call, ret, _ANALYSER, log, timer, invocations,
                   wall, _last_request_ts, requests>>

FetchesMade == SumInts([t \in DOMAIN threads |-> threads[t].serial])

\* The thread makes its next call.
WorkerNextFetch(t) ==
    /\ threads[t].pc = "done"
    /\ FetchesMade < MaxFetches
    /\ \E handle \in FetchHandles :
          threads' = [threads EXCEPT
                         ![t] = FetchCall(handle, threads[t].serial + 1,
                                          Len(requests), _last_request_ts)]
    /\ UNCHANGED <<pc, call, ret, _ANALYSER, log, _cache, timer, invocations,
                   _lock, wall, _last_request_ts, requests>>

WorkerStep(t) ==
    \/ WorkerAcquire(t)
    \/ WorkerContains(t)
    \/ WorkerGetItem(t)
    \/ WorkerThrottle(t)
    \/ WorkerWake(t)
    \/ WorkerStamp(t)
    \/ WorkerGet(t)
    \/ WorkerAcquireStore(t)
    \/ WorkerStore(t)

NextClient ==
    \/ ClockTick
    \/ \E t \in DOMAIN threads : WorkerAcquire(t)
    \/ \E t \in DOMAIN threads : WorkerContains(t)
    \/ \E t \in DOMAIN threads : WorkerGetItem(t)
    \/ \E t \in DOMAIN threads : WorkerThrottle(t)
    \/ \E t \in DOMAIN threads : WorkerWake(t)
    \/ \E t \in DOMAIN threads : WorkerStamp(t)
    \/ \E t \in DOMAIN threads : WorkerGet(t)
    \/ \E t \in DOMAIN threads : WorkerAcquireStore(t)
    \/ \E t \in DOMAIN threads : WorkerStore(t)
    \/ \E t \in DOMAIN threads : WorkerNextFetch(t)

SpecSequentialClient == InitSequentialClient /\ [][NextClient]_vars

\* Every worker runs the one call it was handed by _run_io.
NextConcurrentClient ==
    \/ ClockTick
    \/ \E t \in DOMAIN threads : WorkerAcquire(t)
    \/ \E t \in DOMAIN threads : WorkerContains(t)
    \/ \E t \in DOMAIN threads : WorkerGetItem(t)
    \/ \E t \in DOMAIN threads : WorkerThrottle(t)
    \/ \E t \in DOMAIN threads : WorkerWake(t)
    \/ \E t \in DOMAIN threads : WorkerStamp(t)
    \/ \E t \in DOMAIN threads : WorkerGet(t)
    \/ \E t \in DOMAIN threads : WorkerAcquireStore(t)
    \/ \E t \in DOMAIN threads : WorkerStore(t)

SpecConcurrentClient == InitConcurrentClient /\ [][NextConcurrentClient]_vars

\* The scheduler runs every thread that can run, and time passes.
SpecConcurrentClientFair ==
    /\ SpecConcurrentClient
    /\ WF_vars(ClockTick)
    /\ \A t \in 1..NWorkers : WF_vars(WorkerStep(t))

----------------------------------------------------------------------------
(* The lock of the cache under concurrent callers                           *)

AllDone == \A t \in DOMAIN threads : threads[t].pc = "done"

InFunc(t) == threads[t].pc \in {"throttle", "sleep", "stamp", "get"}

EntriesFor(cache, key) == {i \in DOMAIN cache : cache[i].key = key}

\* A thread holds the lock only in the lookup and in the store.
LockAroundCacheOnly ==
    \A t \in DOMAIN threads :
        /\ _lock = t => threads[t].pc \in {"contains", "getitem", "store"}
        /\ InFunc(t) => _lock # t

\* A thread that missed invokes the function whatever the others do, and is
\* returned what its own GET was parsed to.
OwnInvocation ==
    \A t \in DOMAIN threads :
        threads[t].pc = "done" /\ ~threads[t].found =>
            /\ threads[t].invoked
            /\ threads[t].ret.kind = "return" =>
                  /\ threads[t].ret.value = Val(threads[t].result)
                  /\ requests[threads[t].ret.value.fetched].thread = t

\* A store leaves one entry for the key, holding the result of the thread that
\* stored; no other step changes what the cache holds.
StoreReplaces ==
    /\ \A t \in DOMAIN threads :
           threads[t].pc = "store" /\ threads'[t].pc = "done" =>
               /\ Cardinality(EntriesFor(_cache', threads[t].key)) = 1
               /\ link_of(_cache', threads[t].key).value = Val(threads[t].result)
    /\ (\A t \in DOMAIN threads : threads[t].pc # "store") =>
           {_cache'[i] : i \in DOMAIN _cache'} = {_cache[i] : i \in DOMAIN _cache}

\* C23: the lock is held around the lookup and around the store only; threads
\* that miss on one key all invoke the function and each is returned the result
\* of its own invocation; a store leaves exactly one entry for the key, holding
\* the result stored last; every interleaving ends with all callers done.
C23_NoSingleFlight ==
    /\ [](LockAroundCacheOnly /\ OwnInvocation)
    /\ [][StoreReplaces]_vars
    /\ <>[]AllDone

\* Two threads missed on the same key, both invoked the function, both stored,
\* and the cache holds the one entry of the thread that stored last.
C23_Witness ==
    /\ AllDone
    /\ threads[1].key = threads[2].key
    /\ ~threads[1].found /\ ~threads[2].found
    /\ threads[1].ret.kind = "return" /\ threads[2].ret.kind = "return"
    /\ threads[1].ret.value # threads[2].ret.value
    /\ invocations = <<threads[1].key, threads[1].key>>
    /\ Cardinality(EntriesFor(_cache, threads[1].key)) = 1
    /\ link_of(_cache, threads[1].key).value = threads[1].ret.value
    /\ threads[1].ret.value.fetched = 1

----------------------------------------------------------------------------
(* The request throttle                                                     *)

\* C24: with one calling thread, consecutive GETs are stamped at least
\* throttle_seconds apart, no thread sleeps before the first request of the
\* client, and a call answered from the cache issues no request and leaves
\* _last_request_ts as it was.
C24_SequentialThrottle ==
    /\ \A i \in 1..(Len(requests) - 1) :
           requests[i + 1].stamp - requests[i].stamp >= Throttle
    /\ \A t \in DOMAIN threads :
           /\ threads[t].pc = "sleep" => requests # <<>>
           /\ threads[t].found =>
                 /\ ~threads[t].invoked
                 /\ Len(requests) = threads[t].requests_before
                 /\ _last_request_ts = threads[t].last_before

\* The thread fetched one feed at once, slept before fetching the other, and
\* its third call was answered from the cache.
C24_Witness ==
    /\ Len(threads) = 1
    /\ threads[1].pc = "done" /\ threads[1].serial = 3 /\ threads[1].found
    /\ Len(requests) = 2
    /\ requests[1].stamp = Throttle + 1
    /\ requests[2].stamp = requests[1].stamp + Throttle
    /\ _last_request_ts = requests[2].stamp

\* C25: with concurrent workers on the one client, any two GETs are stamped at
\* least throttle_seconds apart.
C25_ConcurrentThrottle ==
    \A i, j \in DOMAIN requests :
        i # j => Abs(requests[i].stamp - requests[j].stamp) >= Throttle

----------------------------------------------------------------------------
(* crawl_publication                                                        *)
(*                                                                          *)
(* One call crawl_publication(handle, post_limit, analyse) on a client      *)
(* whose cache is empty, so that every fetch method runs and issues its     *)
(* GET.  The feed, and whether each request succeeds, are the environment's *)
(* choice.  A url is a pair of the kind of page and the number of the post. *)

MaxPosts == 2

\* The mutant of error_entry that reports the failure with no summary of the
\* post it is about.
error_entry_of_first(posts, i, message) ==
    [summary |-> posts[1],
     sentiment |-> None,
     keywords |-> <<>>,
     flesch_reading_ease |-> None,
     flesch_kincaid_grade |-> None,
     lexical_diversity |-> None,
     average_sentence_length |-> None,
     publishing_cadence_days |-> None,
     extra |-> [error |-> message]]

\* ContentAnalytics(summary=summary, extra={"error": str(exc)}) for the i-th
\* post of the feed; the other fields take their defaults
error_entry(posts, i, message) ==
    [summary |-> posts[i],
     sentiment |-> None,
     keywords |-> <<>>,
     flesch_reading_ease |-> None,
     flesch_kincaid_grade |-> None,
     lexical_diversity |-> None,
     average_sentence_length |-> None,
     publishing_cadence_days |-> None,
     extra |-> [error |-> message]]

\* An entry of the feed: the i-th post, with the timestamp the feed gives it.
FeedSummary(i, published_at) ==
    [title |-> "Sample", url |-> <<"post", i>>, published_at |-> published_at]

\* parsers.parse_post_html(handle, url, html, history): the summary is built
\* from the page and carries the url that was fetched.
parse_post_html(url) ==
    [summary |-> [title |-> "Untitled", url |-> url, published_at |-> None],
     html |-> None,
     text |-> Some(<<"H", "i", ".">>)]

FeedStamps(i) ==
    {None} \cup {Some(datetime(DaysAgo(i), aware)) : aware \in BOOLEAN}

\* The feeds of up to MaxPosts posts.
Feeds ==
    UNION {{[i \in 1..n |-> FeedSummary(i, stamps[i])] :
               stamps \in {f \in [1..n -> UNION {FeedStamps(i) : i \in 1..n}] :
                              \A i \in 1..n : f[i] \in FeedStamps(i)}} :
           n \in 0..MaxPosts}

\* posts[:post_limit]
take(posts, post_limit) ==
    [i \in 1..(IF Len(posts) < post_limit THEN Len(posts) ELSE post_limit) |-> posts[i]]

\* The instant _throttle returns at when entered at now: after the sleep, if
\* any.
after_throttle(now, last) ==
    IF throttle_remaining(now, last) > 0 THEN now + throttle_remaining(now, last)
    ELSE now

CrawlCall(feed, post_limit, analyse) ==
    [fn |-> "crawl_publication", handle |-> "h", post_limit |-> post_limit,
     analyse |-> analyse, feed |-> feed,
     posts |-> <<>>, notes |-> <<>>, author_profile |-> None,
     index |-> 1, content |-> None, analytics_payload |-> <<>>, raised |-> {}]

InitCrawl ==
    /\ pc = "fetch_feed"
    /\ \E feed \in Feeds, analyse \in BOOLEAN :
          call = CrawlCall(feed, MaxPosts, analyse)
    /\ ret = NoReturn
    /\ ModuleLoaded
    /\ threads = <<>>
    /\ CacheIdle
    /\ _lock = NoOwner
    /\ wall = Throttle
    /\ _last_request_ts = 0
    /\ requests = <<>>

\* self._get(url): _throttle, then the GET
Get(url) ==
    /\ wall' = after_throttle(wall, _last_request_ts)
    /\ _last_request_ts' = wall'
    /\ requests' = Append(requests, [url |-> url, stamp |-> wall'])

\* posts = self.fetch_feed(handle, limit=post_limit); an exception leaves
\* crawl_publication
CrawlFetchFeed ==
    /\ pc = "fetch_feed"
    /\ Get(<<"feed", 0>>)
    /\ \E ok \in BOOLEAN :
          IF ok
          THEN /\ call' = [call EXCEPT !.posts = take(call.feed, call.post_limit)]
               /\ pc' = "fetch_notes"
               /\ ret' = ret
          ELSE /\ ret' = Raised("HTTPStatusError")
               /\ pc' = "done"
               /\ call' = call
    /\ UNCHANGED <<_ANALYSER, log, threads, _cache, timer, invocations, _lock>>

\* notes = self.fetch_notes(handle, limit=notes_limit)
CrawlFetchNotes ==
    /\ pc = "fetch_notes"
    /\ Get(<<"notes", 0>>)
    /\ \E ok \in BOOLEAN :
          IF ok
          THEN pc' = "fetch_author_profile" /\ ret' = ret
          ELSE pc' = "done" /\ ret' = Raised("HTTPStatusError")
    /\ UNCHANGED <<call, _ANALYSER, log, threads, _cache, timer, invocations, _lock>>

\* author_profile = self.fetch_author_profile(handle); analytics_payload = [];
\* if analyse: history = posts[:post_limit]; for summary in posts:
CrawlFetchAuthorProfile ==
    /\ pc = "fetch_author_profile"
    /\ Get(<<"about", 0>>)
    /\ \E status \in Statuses :
          LET outcome == fetch_author_profile(call.handle, status, Len(requests) + 1)
          IN  IF outcome.kind = "raise"
              THEN /\ ret' = outcome
                   /\ pc' = "done"
                   /\ call' = call
              ELSE /\ call' = [call EXCEPT !.author_profile = outcome.value]
                   /\ pc' = IF call.analyse /\ call.posts # <<>>
                            THEN "fetch_post" ELSE "return"
                   /\ ret' = ret
    /\ UNCHANGED <<_ANALYSER, log, threads, _cache, timer, invocations, _lock>>

AfterPost == IF call.index < Len(call.posts) THEN "fetch_post" ELSE "return"

\* try: content = self.fetch_post(summary.url, history=history)
\* except Exception as exc: analytics_payload.append(...); continue
\* The page is refused, or the url is not one of a substack host and
\* _extract_handle_from_url raises before any request.
CrawlFetchPost ==
    /\ pc = "fetch_post"
    /\ \E outcome \in {"page", "HTTPStatusError", "ValueError"} :
          /\ IF outcome = "ValueError"
             THEN UNCHANGED <<wall, _last_request_ts, requests>>
             ELSE Get(call.posts[call.index].url)
          /\ IF outcome = "page"
             THEN /\ call' = [call EXCEPT
                                 !.content =
                                     Some(parse_post_html(call.posts[call.index].url))]
                  /\ pc' = "analyse_post"
             ELSE /\ call' = [call EXCEPT
                                 !.analytics_payload =
                                     Append(@, error_entry(call.posts, call.index,
                                                           outcome)),
                                 !.raised = @ \cup {call.index},
                                 !.index = @ + 1]
                  /\ pc' = AfterPost
    /\ UNCHANGED <<ret, _ANALYSER, log, threads, _cache, timer, invocations, _lock>>

\* analytics_payload.append(analysis.analyse_post(content, history=history)),
\* outside the try: an exception of analyse_post leaves crawl_publication.
\* raised is the set of posts whose fetch_post raised.
CrawlAnalysePost ==
    /\ pc = "analyse_post"
    /\ \E now \in Clock :
          LET content == Val(call.content)
              history == Some(take(call.posts, call.post_limit))
              outcome == analyse_post_outcome(content, history, now)
          IN  /\ log' = Append(log, [content |-> content, history |-> history,
                                     outcome |-> outcome])
              /\ _ANALYSER' =
                    IF str_strip(text_or_empty(content)) # <<>>
                    THEN analyser_after_polarity_scores(_ANALYSER,
                                                        text_or_empty(content))
                    ELSE _ANALYSER
              /\ IF outcome.kind = "raise"
                 THEN /\ ret' = outcome
                      /\ pc' = "done"
                      /\ call' = call
                 ELSE /\ call' = [call EXCEPT
                                     !.analytics_payload = Append(@, outcome.value),
                                     !.index = @ + 1,
                                     !.content = None]
                      /\ pc' = AfterPost
                      /\ ret' = ret
    /\ UNCHANGED <<threads, _cache, timer, invocations, _lock, wall,
                   _last_request_ts, requests>>

\* return CrawlResult(publication, posts, notes, author, analytics)
CrawlReturn ==
    /\ pc = "return"
    /\ ret' = Returned([posts |-> call.posts,
                        notes |-> call.notes,
                        author |-> call.author_profile,
                        analytics |-> call.analytics_payload])
    /\ pc' = "done"
    /\ UNCHANGED <<call, _ANALYSER, log, threads, _cache, timer, invocations,
                   _lock, wall, _last_request_ts, requests>>

NextCrawl ==
    \/ CrawlFetchFeed
    \/ CrawlFetchNotes
    \/ CrawlFetchAuthorProfile
    \/ CrawlFetchPost
    \/ CrawlAnalysePost
    \/ CrawlReturn

SpecCrawl == InitCrawl /\ [][NextCrawl]_vars

CrawlDone == pc = "done" /\ call.fn = "crawl_publication"

PostPages == {k \in DOMAIN requests : requests[k].url[1] = "post"}

\* C26: whenever a crawl returns: with analyse, the analytics hold one entry
\* per post of the feed, in feed order, each carrying the summary of its post,
\* and the entry of a post whose fetch_post raised is the summary of the feed
\* with the error and no metrics; without analyse, the analytics are empty and
\* no post page was requested.
C26_OneEntryPerPost ==
    (CrawlDone /\ ret.kind = "return") =>
        IF call.analyse
        THEN /\ Len(ret.value.analytics) = Len(ret.value.posts)
             /\ \A i \in DOMAIN ret.value.posts :
                   /\ ret.value.analytics[i].summary.url = ret.value.posts[i].url
                   /\ i \in call.raised =>
                         \E message \in {"HTTPStatusError", "ValueError"} :
                             ret.value.analytics[i] =
                                 error_entry(ret.value.posts, i, message)
                   /\ i \notin call.raised =>
                         /\ ret.value.analytics[i].summary =
                               parse_post_html(ret.value.posts[i].url).summary
                         /\ ~IsNone(ret.value.analytics[i].flesch_reading_ease)
        ELSE ret.value.analytics = <<>> /\ PostPages = {}

\* A crawl that went on after a post that could not be fetched: it returned
\* the error entry of the first post and the analysis of the second.
C26_Witness ==
    /\ CrawlDone
    /\ ret.kind = "return"
    /\ call.analyse
    /\ call.raised = {1}
    /\ Len(ret.value.analytics) = 2
    /\ ret.value.analytics[1] = error_entry(call.posts, 1, "HTTPStatusError")
    /\ ret.value.analytics[2].summary.url = <<"post", 2>>
    /\ ~IsNone(ret.value.analytics[2].flesch_reading_ease)

\* A crawl without analyse returned with the feed's posts and no analytics.
C26_NoAnalyseReached ==
    /\ CrawlDone
    /\ ret.kind = "return"
    /\ ~call.analyse
    /\ Len(ret.value.posts) = 2
    /\ Len(requests) = 3

----------------------------------------------------------------------------
(* The handlers of the MCP server                                           *)
(*                                                                          *)
(* handle_call_tool(name, arguments) and handle_read_resource(uri), each    *)
(* run on the shared client.  The values of an argument map are strings;    *)
(* a uri is the record of its parts as urlparse and parse_qs split it.      *)
(* What the client calls return is the environment's choice; raised is the  *)
(* set of the client calls of the handler that raised.                      *)

\* _json_dump(payload): the JSON text of the payload
_json_dump(payload) == [json |-> payload]

\* The mutant of _create_text_result that never sets isError.
create_text_result_no_error(text, is_error) ==
    [content |-> <<[type |-> "text", text |-> text]>>, isError |-> FALSE]

\* _create_text_result(text, is_error)
_create_text_result(text, is_error) ==
    [content |-> <<[type |-> "text", text |-> text]>>, isError |-> is_error]

\* The result of the except clause of handle_call_tool
tool_error(message, name) ==
    _create_text_result(_json_dump([error |-> message, tool |-> name]), TRUE)

\* The result of the except clause of handle_read_resource
resource_error(message, uri) ==
    <<[content |-> _json_dump([error |-> message, uri |-> uri]),
       mime_type |-> "application/json"]>>

resource_json(payload) ==
    <<[content |-> _json_dump(payload), mime_type |-> "application/json"]>>

\* int(value) of a string
int_of(value) ==
    IF value = "10" THEN Returned(10) ELSE Raised("ValueError")

ToolNames ==
    {"get_posts", "get_post_content", "analyze_post", "get_author_profile",
     "get_notes", "crawl_publication"}

\* arguments["handle"] or arguments["url"]: the key the tool reads first
required_argument(name) ==
    IF name \in {"get_post_content", "analyze_post"} THEN "url" ELSE "handle"

\* The key of the first int(arguments.get(...)) of the tool
limit_argument(name) ==
    IF name = "crawl_publication" THEN "post_limit" ELSE "limit"

takes_limit(name) == name \in {"get_posts", "get_notes", "crawl_publication"}

\* The client method the tool calls first
client_method(name) ==
    CASE name = "get_posts" -> "fetch_feed"
      [] name = "get_post_content" -> "fetch_post"
      [] name = "analyze_post" -> "fetch_post"
      [] name = "get_author_profile" -> "fetch_author_profile"
      [] name = "get_notes" -> "fetch_notes"
      [] OTHER -> "crawl_publication"

\* The methods that turn a 404 into a value: fetch_author_profile returns None
\* and fetch_notes an empty list.
NotFoundHandled == {"fetch_author_profile", "fetch_notes"}

SubstackUrl == "https://h.substack.com/p/1"
ArgumentValues(key) ==
    CASE key = "handle" -> {"h"}
      [] key = "url" -> {SubstackUrl, "https://example.com/p/1"}
      [] OTHER -> {"10", "ten"}

ArgumentMaps ==
    UNION {{arguments \in [keys -> UNION {ArgumentValues(k) : k \in keys}] :
               \A k \in keys : arguments[k] \in ArgumentValues(k)} :
           keys \in SUBSET {"handle", "url", "limit", "post_limit"}}

\* The feeds the history of analyze_post is drawn from.
HistoryFeeds == {feed \in Feeds : Len(feed) \in {0, 2}}

ToolCall(name, arguments) ==
    [fn |-> "handle_call_tool", name |-> name, arguments |-> arguments,
     raised |-> {}, missing |-> FALSE, post_content |-> None]

\* The uris read: the help page, a post, the resources of a publication, and
\* uris the handler does not serve.
ResourceUris ==
    {[scheme |-> scheme, netloc |-> netloc, path |-> path, query |-> query] :
        scheme \in {"substack", "https"},
        netloc \in {"help", "post", "publication"},
        path \in {<<>>, <<"h">>, <<"h", "posts">>, <<"h", "notes">>,
                  <<"h", "profile">>, <<"h", "search">>, <<"h", "crawl">>,
                  <<"h", "feed">>},
        query \in {<<>>, <<<<"url", SubstackUrl>>>>, <<<<"limit", "ten">>>>,
                   <<<<"query", "ai">>>>}}

HelpUri == [scheme |-> "substack", netloc |-> "help", path |-> <<>>, query |-> <<>>]

ResourceCall(uri) ==
    [fn |-> "handle_read_resource", uri |-> uri, raised |-> {}]

\* query_params.get(key, [None])[0]
query_get(query, key) ==
    IF \E i \in DOMAIN query : query[i][1] = key
    THEN Some(query[CHOOSE i \in DOMAIN query : query[i][1] = key][2])
    ELSE None

\* _parse_int(query_params, "limit", 10)
_parse_int(query, key) ==
    IF IsNone(query_get(query, key)) THEN Returned(10)
    ELSE int_of(Val(query_get(query, key)))

InitHandlers ==
    /\ pc = "handler"
    /\ \/ \E name \in ToolNames \cup {"no_such_tool"}, arguments \in ArgumentMaps :
             call = ToolCall(name, arguments)
       \/ \E uri \in ResourceUris : call = ResourceCall(uri)
    /\ ret = NoReturn
    /\ ModuleLoaded
    /\ OthersIdle

\* handle_call_tool up to the first client call: the tool is looked up and its
\* arguments are read; KeyError and ValueError go to the except clause.
CallToolArguments ==
    /\ pc = "handler"
    /\ call.fn = "handle_call_tool"
    /\ LET name == call.name
           arguments == call.arguments
           limit == IF limit_argument(name) \in DOMAIN arguments
                    THEN int_of(arguments[limit_argument(name)])
                    ELSE Returned(10)
       IN  IF name \notin ToolNames
           THEN /\ ret' = Returned(_create_text_result(
                              _json_dump([error |-> "Unknown tool"]),
                              TRUE))
                /\ pc' = "done"
                /\ call' = call
           ELSE IF required_argument(name) \notin DOMAIN arguments
           THEN /\ ret' = Returned(tool_error("KeyError", name))
                /\ pc' = "done"
                /\ call' = [call EXCEPT !.missing = TRUE]
           ELSE IF takes_limit(name) /\ limit.kind = "raise"
           THEN /\ ret' = Returned(tool_error(limit.exception, name))
                /\ pc' = "done"
                /\ call' = call
           ELSE /\ pc' = "client"
                /\ UNCHANGED <<ret, call>>
    /\ UNCHANGED <<_ANALYSER, log>>
    /\ UNCHANGED others

\* await _run_io(substack_client.<method>, ...): the first client call of the
\* tool and, for all tools but analyze_post, the result made of what it
\* returned.  fetch_post raises ValueError on a url of another host.
CallToolClient ==
    /\ pc = "client"
    /\ call.fn = "handle_call_tool"
    /\ LET name == call.name
           method == client_method(name)
       IN  \E status \in Statuses :
              LET raises ==
                      \/ status = 500
                      \/ status = 404 /\ method \notin NotFoundHandled
                      \/ method = "fetch_post" /\ call.arguments["url"] # SubstackUrl
              IN  IF raises
                  THEN /\ ret' = Returned(tool_error(
                                     IF method = "fetch_post"
                                           /\ call.arguments["url"] # SubstackUrl
                                     THEN "ValueError" ELSE "HTTPStatusError",
                                     name))
                       /\ call' = [call EXCEPT !.raised = @ \cup {method}]
                       /\ pc' = "done"
                  ELSE IF name = "analyze_post"
                  THEN /\ call' = [call EXCEPT
                                      !.post_content =
                                          Some(parse_post_html(<<"post", 1>>))]
                       /\ pc' = "history"
                       /\ ret' = ret
                  ELSE IF name = "get_author_profile" /\ status = 404
                  THEN /\ ret' = Returned(_create_text_result(
                                     _json_dump([error |-> "Author profile not found",
                                                 handle |-> call.arguments["handle"]]),
                                     TRUE))
                       /\ pc' = "done"
                       /\ call' = call
                  ELSE /\ ret' = Returned(_create_text_result(
                                     _json_dump([tool |-> name, returned |-> method]),
                                     FALSE))
                       /\ pc' = "done"
                       /\ call' = call
    /\ UNCHANGED <<_ANALYSER, log>>
    /\ UNCHANGED others

\* analyze_post: history = await _run_io(fetch_feed, publication_handle, 10),
\* or [] when that raises; then analyse_post(post_content, history), whose
\* exception goes to the except clause of the handler.
CallToolAnalyse ==
    /\ pc = "history"
    /\ call.fn = "handle_call_tool"
    /\ \E feed \in HistoryFeeds, ok \in BOOLEAN, now \in Clock :
          LET history == IF ok THEN feed ELSE <<>>
              content == Val(call.post_content)
              outcome == analyse_post_outcome(content, Some(history), now)
          IN  /\ call' = [call EXCEPT
                             !.raised = IF ok THEN @ ELSE @ \cup {"fetch_feed"}]
              /\ log' = Append(log, [content |-> content, history |-> Some(history),
                                     outcome |-> outcome])
              /\ ret' = IF outcome.kind = "raise"
                        THEN Returned(tool_error(outcome.exception, call.name))
                        ELSE Returned(_create_text_result(_json_dump(outcome.value),
                                                          FALSE))
    /\ _ANALYSER' =
          IF str_strip(text_or_empty(Val(call.post_content))) # <<>>
          THEN analyser_after_polarity_scores(
                   _ANALYSER, text_or_empty(Val(call.post_content)))
          ELSE _ANALYSER
    /\ pc' = "done"
    /\ UNCHANGED others

\* The part of handle_read_resource before the client call: what the uri
\* names, or the ValueError raised for it (None when the uri is the help page).
resource_method(uri) ==
    IF uri.scheme # "substack"
    THEN Raised("Unsupported URI scheme")
    ELSE IF uri.netloc = "post"
    THEN IF IsNone(query_get(uri.query, "url"))
         THEN Raised("The 'url' query parameter is required")
         ELSE Returned("fetch_post")
    ELSE IF uri.netloc # "publication" \/ uri.path = <<>>
    THEN Raised("Unsupported resource URI")
    ELSE IF Len(uri.path) = 1 \/ uri.path[2] = "posts"
    THEN IF _parse_int(uri.query, "limit").kind = "raise"
         THEN Raised("Invalid integer") ELSE Returned("fetch_feed")
    ELSE IF uri.path[2] = "notes"
    THEN IF _parse_int(uri.query, "limit").kind = "raise"
         THEN Raised("Invalid integer") ELSE Returned("fetch_notes")
    ELSE IF uri.path[2] = "profile"
    THEN Returned("fetch_author_profile")
    ELSE IF uri.path[2] = "search"
    THEN IF IsNone(query_get(uri.query, "query"))
         THEN Raised("The 'query' parameter is required")
         ELSE IF _parse_int(uri.query, "limit").kind = "raise"
         THEN Raised("Invalid integer") ELSE Returned("fetch_feed")
    ELSE IF uri.path[2] = "crawl"
    THEN IF _parse_int(uri.query, "post_limit").kind = "raise"
         THEN Raised("Invalid integer") ELSE Returned("crawl_publication")
    ELSE Raised("Unsupported resource path")

\* handle_read_resource up to the client call
ReadResourceUri ==
    /\ pc = "handler"
    /\ call.fn = "handle_read_resource"
    /\ IF call.uri = HelpUri
       THEN /\ ret' = Returned(<<[content |-> [markdown |-> "RESOURCE_HELP"],
                                  mime_type |-> "text/markdown"]>>)
            /\ pc' = "done"
       ELSE IF resource_method(call.uri).kind = "raise"
       THEN /\ ret' = Returned(resource_error(resource_method(call.uri).exception,
                                              call.uri))
            /\ pc' = "done"
       ELSE /\ pc' = "client"
            /\ ret' = ret
    /\ UNCHANGED <<call, _ANALYSER, log>>
    /\ UNCHANGED others

\* The client call of handle_read_resource and the payload made of what it
\* returned; a profile that is None is a payload like any other.
ReadResourceClient ==
    /\ pc = "client"
    /\ call.fn = "handle_read_resource"
    /\ LET method == resource_method(call.uri).value
       IN  \E status \in Statuses :
              IF status = 500 \/ (status = 404 /\ method \notin NotFoundHandled)
              THEN /\ ret' = Returned(resource_error("HTTPStatusError", call.uri))
                   /\ call' = [call EXCEPT !.raised = @ \cup {method}]
              ELSE /\ ret' = Returned(resource_json(
                                 [handle |-> "h", returned |-> method,
                                  found |-> status = 200]))
                   /\ call' = call
    /\ pc' = "done"
    /\ UNCHANGED <<_ANALYSER, log>>
    /\ UNCHANGED others

NextHandlers ==
    \/ CallToolArguments
    \/ CallToolClient
    \/ CallToolAnalyse
    \/ ReadResourceUri
    \/ ReadResourceClient

SpecHandlers == InitHandlers /\ [][NextHandlers]_vars

ToolDone == pc = "done" /\ call.fn = "handle_call_tool"
ResourceDone == pc = "done" /\ call.fn = "handle_read_resource"

\* The result is an error result: isError is set and the body has an error.
IsToolError(result) ==
    /\ result.isError
    /\ "error" \in DOMAIN result.content[1].text.json

IsResourceError(contents, uri) ==
    /\ Len(contents) = 1
    /\ DOMAIN contents[1].content.json = {"error", "uri"}
    /\ contents[1].content.json.uri = uri

\* The handlers return and never raise.
HandlersReturn ==
    pc = "done" =>
        /\ ret.kind = "return"
        /\ call.fn = "handle_call_tool" =>
              DOMAIN ret.value = {"content", "isError"}
        /\ call.fn = "handle_read_resource" => Len(ret.value) = 1

====
